---- MODULE Spec2Model ----
(***************************************************************************)
(* Model of the osquery session service of ntns/fleet                      *)
(* (src/unnamed/part_000, package service): AuthenticateHost, EnrollAgent, *)
(* GetClientConfig, GetDistributedQueries and                              *)
(* SubmitDistributedQueryResults with its three ingestion handlers; and of *)
(* RecordPolicyQueryExecutions and the policy reads and deletes of the     *)
(* mysql datastore (src/server/datastore/mysql/policies.go).               *)
(*                                                                         *)
(* A session is one request served by its own goroutine.  An action is the *)
(* code between two suspension points: one datastore or pub/sub call and   *)
(* the local code that follows it, up to the next such call.  Every        *)
(* datastore and pub/sub call may fail (a storage fault).                  *)
(*                                                                         *)
(* Go strings that are compared, prefixed, trimmed or parsed are sequences *)
(* of one-character strings; strings that are only compared with each      *)
(* other (node keys, secrets, messages) are TLA+ strings.                  *)
(***************************************************************************)
EXTENDS Integers, Sequences, FiniteSets, TLC

VARIABLES
    now,          \* svc.clock.Now(), a logical time
    nreq,         \* number of requests started so far
    appConfig,    \* datastore: the application configuration
    dsHosts,      \* datastore: node key -> stored host record
    dsLabels,     \* datastore: label id -> recorded membership of the host
    dsCampaigns,  \* datastore: campaign id -> status
    dsExecutions, \* datastore: appended distributed query executions
    published,    \* pub/sub: result envelopes accepted by the result store
    dsPolicyHistory, \* datastore: insert statements into policy_membership_history
    rowLocks,     \* datastore: policy id -> writer holding its row lock
    dsPolicies,   \* datastore: policy id -> row of the policies table
    dsReader,     \* datastore: the policy tables as ds.reader sees them
    orphaned,     \* history: campaigns saved as closed after a NoSubscriber
    pc,           \* session -> position in its handler
    req,          \* session -> operation and arguments of the current call
    loc,          \* session -> local variables of the current call
    ret,          \* session -> values returned by the current call
    calls,        \* session -> datastore and pub/sub calls made by the call
    overlap       \* session -> another call was in flight during this one

vars == <<now, nreq, appConfig, dsHosts, dsLabels, dsCampaigns, dsExecutions,
          published, dsPolicyHistory, rowLocks, dsPolicies, dsReader, orphaned,
          pc, req, loc, ret, calls, overlap>>

polVars == <<dsPolicyHistory, rowLocks, dsPolicies, dsReader>>

dsVars == <<appConfig, dsHosts, dsLabels, dsCampaigns, dsExecutions, published,
            polVars, orphaned>>

-----------------------------------------------------------------------------
(* Bounds of the model *)

MaxClock == 3
MaxRequests == 2
MaxResults == 2

Sessions == {"s1", "s2"}

-----------------------------------------------------------------------------
(* Optional values: a nil pointer or nil error is None *)

None == <<>>
Some(x) == <<x>>

EmptyMap == [x \in {} |-> 0]

MapPut(m, k, v) == [x \in DOMAIN m \cup {k} |-> IF x = k THEN v ELSE m[x]]

MapDelete(m, k) == [x \in DOMAIN m \ {k} |-> m[x]]

-----------------------------------------------------------------------------
(* Strings as sequences of characters *)

HasPrefix(s, prefix) ==
    /\ Len(s) >= Len(prefix)
    /\ SubSeq(s, 1, Len(prefix)) = prefix

TrimPrefix(s, prefix) ==
    IF HasPrefix(s, prefix) THEN SubSeq(s, Len(prefix) + 1, Len(s)) ELSE s

\* the value returned as it is
emptyToZeroIdentity(val) == val

emptyToZero(val) == IF val = <<>> THEN <<"0">> ELSE val

DecimalDigits == <<"0", "1", "2", "3", "4", "5", "6", "7", "8", "9">>

IsDigit(c) == \E d \in 1..10 : DecimalDigits[d] = c

DigitValue(c) == (CHOOSE d \in 1..10 : DecimalDigits[d] = c) - 1

RECURSIVE DecimalValue(_)
DecimalValue(digits) ==
    IF digits = <<>> THEN 0
    ELSE 10 * DecimalValue(SubSeq(digits, 1, Len(digits) - 1))
         + DigitValue(digits[Len(digits)])

\* strconv.Atoi: an optional sign and one or more decimal digits.  The
\* strings of the model are short, so the range error never occurs.
Atoi(s) ==
    LET signed == Len(s) > 0 /\ (s[1] = "+" \/ s[1] = "-")
        digits == IF signed THEN Tail(s) ELSE s
    IN  IF digits = <<>> \/ \E i \in 1..Len(digits) : ~IsDigit(digits[i])
           THEN [err |-> TRUE, val |-> 0]
           ELSE [err |-> FALSE,
                 val |-> IF signed /\ s[1] = "-"
                            THEN 0 - DecimalValue(digits)
                            ELSE DecimalValue(digits)]

\* strings.Trim(s, "."): leading and trailing dots removed
RECURSIVE TrimDots(_)
TrimDots(s) ==
    IF s = <<>> THEN s
    ELSE IF s[1] = "." THEN TrimDots(Tail(s))
    ELSE IF s[Len(s)] = "." THEN TrimDots(SubSeq(s, 1, Len(s) - 1))
    ELSE s

UpperLetters ==
    <<"A", "B", "C", "D", "E", "F", "G", "H", "I", "J", "K", "L", "M",
      "N", "O", "P", "Q", "R", "S", "T", "U", "V", "W", "X", "Y", "Z">>

LowerLetters ==
    <<"a", "b", "c", "d", "e", "f", "g", "h", "i", "j", "k", "l", "m",
      "n", "o", "p", "q", "r", "s", "t", "u", "v", "w", "x", "y", "z">>

\* strings.ToLower, on the letters A to Z
ToLower(s) ==
    [i \in 1..Len(s) |->
        IF \E k \in 1..26 : UpperLetters[k] = s[i]
           THEN LowerLetters[CHOOSE k \in 1..26 : UpperLetters[k] = s[i]]
           ELSE s[i]]

\* strings.Contains
Contains(s, substr) ==
    \E i \in 0..(Len(s) - Len(substr)) : SubSeq(s, i + 1, i + Len(substr)) = substr

\* uint(n): a negative int wraps around.  Go wraps at 2^64; the model's
\* integers are narrower and wrap at 2^30.
ToUint(n) == IF n >= 0 THEN n ELSE 2^30 + n

-----------------------------------------------------------------------------
(* osqueryError: a message and the node-invalid flag *)

osqueryError(message, nodeInvalid) ==
    [type |-> "osqueryError", message |-> message, nodeInvalid |-> nodeInvalid]

\* osqueryError{message: ...}: the flag keeps its zero value
osqueryErrorMsg(message) == osqueryError(message, FALSE)

NodeInvalid(e) == e.nodeInvalid

\* the text of a datastore or pub/sub error, concatenated into messages
ErrText == "<cause>"

-----------------------------------------------------------------------------
(* The datastore and the result store, as the service calls them *)

NodeKeys == {"k1", "k2", "k3"}

\* the zero value of time.Time, which lies long before every reading of the
\* clock
ZeroTime == -2

ZeroHost ==
    [ID |-> 0, NodeKey |-> "", OsqueryHostID |-> "", SeenTime |-> 0,
     DetailUpdateTime |-> ZeroTime,
     NetworkInterfaces |-> <<>>,
     OSVersion |-> <<>>, Build |-> <<>>, Platform |-> <<>>,
     PlatformLike |-> <<>>, CodeName |-> <<>>,
     DistributedInterval |-> 0, ConfigTLSRefresh |-> 0, LoggerTLSPeriod |-> 0,
     OsqueryVersion |-> <<>>,
     PhysicalMemory |-> 0, HostName |-> <<>>, UUID |-> <<>>,
     CPUType |-> <<>>, CPUSubtype |-> <<>>, CPUBrand |-> <<>>,
     CPUPhysicalCores |-> 0, CPULogicalCores |-> 0,
     HardwareVendor |-> <<>>, HardwareModel |-> <<>>,
     HardwareVersion |-> <<>>, HardwareSerial |-> <<>>, ComputerName |-> <<>>,
     Uptime |-> 0]

NewHost(id, nodeKey, identifier) ==
    [ZeroHost EXCEPT !.ID = id, !.NodeKey = nodeKey, !.OsqueryHostID = identifier]

\* ds.AuthenticateHost(nodeKey): the host, NotFoundError, or another error
DsAuthenticateHost(nodeKey) ==
    (IF nodeKey \in DOMAIN dsHosts
        THEN {[err |-> "nil", host |-> dsHosts[nodeKey]]}
        ELSE {[err |-> "NotFoundError", host |-> ZeroHost]})
    \cup {[err |-> "error", host |-> ZeroHost]}

\* ds.MarkHostSeen(host, t): the stored seen-time becomes t
DsMarkHostSeen(hosts, host, t) ==
    [hosts EXCEPT ![host.NodeKey].SeenTime = t]

\* ds.AppConfig(): the configuration, or an error
DsAppConfig ==
    {[err |-> "nil", config |-> appConfig],
     [err |-> "error", config |-> [EnrollSecret |-> ""]]}

\* ds.EnrollHost(identifier, keySize): a new host under a node key that no
\* other host holds, or an error
DsEnrollHost(identifier) ==
    {[err |-> "nil",
      host |-> NewHost(Cardinality(DOMAIN dsHosts) + 1, k, identifier)] :
        k \in NodeKeys \ DOMAIN dsHosts}
    \cup {[err |-> "error", host |-> ZeroHost]}

\* a call the service made, with its argument and the error it returned
Call(op, arg, err) == [op |-> op, arg |-> arg, err |-> err]

Called(s, op) == \E i \in 1..Len(calls[s]) : calls[s][i].op = op

-----------------------------------------------------------------------------
(* Sessions *)

InFlight(s) == pc[s] \notin {"idle", "returned"}

\* a call of session s begins: it overlaps every call in flight
BeginOverlap(s) ==
    [x \in Sessions |->
        IF x = s THEN \E y \in Sessions \ {s} : InFlight(y)
        ELSE IF InFlight(x) THEN TRUE ELSE overlap[x]]

Return(s, r) ==
    /\ pc' = [pc EXCEPT ![s] = "returned"]
    /\ ret' = [ret EXCEPT ![s] = r]

-----------------------------------------------------------------------------
(* AuthenticateHost *)

\* the zero time in place of the clock's
ClockZero == ZeroHost.SeenTime

ClockNow == now

\* the empty-key check left out
AuthKeyMissingNever(nodeKey) == FALSE

AuthKeyMissing(nodeKey) == nodeKey = ""

AuthMissingNodeKey ==
    osqueryError(<<"authentication error: missing node key">>, TRUE)

AuthInvalidNodeKey ==
    osqueryError(<<"authentication error: invalid node key: ">>, TRUE)

AuthLookupError ==
    osqueryErrorMsg(<<"authentication error: ", ErrText>>)

\* the seen-time failure reported as an invalid node
AuthMarkSeenErrorInvalid ==
    osqueryError(<<"failed to mark host seen: ", ErrText>>, TRUE)

AuthMarkSeenError ==
    osqueryErrorMsg(<<"failed to mark host seen: ", ErrText>>)

\* the error returned for a failed credential lookup
AuthLookupFailureAlwaysInvalid(err) == AuthInvalidNodeKey

AuthLookupFailure(err) ==
    IF err = "NotFoundError" THEN AuthInvalidNodeKey ELSE AuthLookupError

\* the empty-key check, the credential lookup and the clock read
AuthenticateHost(s, nodeKey) ==
    /\ pc[s] = "idle"
    /\ nreq < MaxRequests
    /\ nreq' = nreq + 1
    /\ req' = [req EXCEPT ![s] = [op |-> "AuthenticateHost", nodeKey |-> nodeKey]]
    /\ overlap' = BeginOverlap(s)
    /\ IF AuthKeyMissing(nodeKey)
          THEN /\ Return(s, [host |-> None, err |-> Some(AuthMissingNodeKey)])
               /\ calls' = [calls EXCEPT ![s] = <<>>]
               /\ loc' = [loc EXCEPT ![s] = <<>>]
          ELSE \E r \in DsAuthenticateHost(nodeKey) :
               /\ calls' = [calls EXCEPT ![s] =
                     <<Call("AuthenticateHost", nodeKey, r.err)>>]
               /\ IF r.err # "nil"
                     THEN /\ Return(s, [host |-> None,
                                        err |-> Some(AuthLookupFailure(r.err))])
                          /\ loc' = [loc EXCEPT ![s] = <<>>]
                     ELSE /\ pc' = [pc EXCEPT ![s] = "MarkHostSeen"]
                          /\ loc' = [loc EXCEPT ![s] =
                                [host |-> r.host, t |-> ClockNow]]
                          /\ UNCHANGED ret
    /\ UNCHANGED <<now, dsVars>>

\* ds.MarkHostSeen(host, svc.clock.Now()) and the return
AuthMarkHostSeen(s) ==
    /\ pc[s] = "MarkHostSeen"
    /\ \E e \in {"nil", "error"} :
         /\ calls' = [calls EXCEPT ![s] =
               Append(@, Call("MarkHostSeen", <<loc[s].host.NodeKey, loc[s].t>>, e))]
         /\ IF e = "nil"
               THEN /\ dsHosts' = DsMarkHostSeen(dsHosts, loc[s].host, loc[s].t)
                    /\ Return(s, [host |-> Some(loc[s].host), err |-> None])
               ELSE /\ Return(s, [host |-> None, err |-> Some(AuthMarkSeenError)])
                    /\ UNCHANGED dsHosts
    /\ UNCHANGED <<now, nreq, polVars, orphaned,
                   appConfig, dsLabels, dsCampaigns, dsExecutions,
                   published, req, loc, overlap>>

-----------------------------------------------------------------------------
(* EnrollAgent *)

\* svc.config
svcConfig == [Osquery |-> [NodeKeySize |-> 24, LabelUpdateInterval |-> 1]]

EnrollConfigError ==
    osqueryError(<<"getting enroll secret: ", ErrText>>, TRUE)

EnrollInvalidSecret ==
    osqueryError(<<"invalid enroll secret">>, TRUE)

EnrollFailed ==
    osqueryError(<<"enrollment failed: ", ErrText>>, TRUE)

\* the secret check left out
EnrollSecretAccepted(enrollSecret, config) == FALSE

EnrollSecretMismatch(enrollSecret, config) ==
    enrollSecret # config.EnrollSecret

\* ds.AppConfig() and the comparison of the secrets
EnrollAgent(s, enrollSecret, hostIdentifier) ==
    /\ pc[s] = "idle"
    /\ nreq < MaxRequests
    /\ nreq' = nreq + 1
    /\ req' = [req EXCEPT ![s] =
          [op |-> "EnrollAgent", enrollSecret |-> enrollSecret,
           hostIdentifier |-> hostIdentifier]]
    /\ overlap' = BeginOverlap(s)
    /\ loc' = [loc EXCEPT ![s] = <<>>]
    /\ \E r \in DsAppConfig :
         /\ calls' = [calls EXCEPT ![s] = <<Call("AppConfig", <<>>, r.err)>>]
         /\ IF r.err # "nil"
               THEN Return(s, [nodeKey |-> "", err |-> Some(EnrollConfigError)])
               ELSE IF EnrollSecretMismatch(enrollSecret, r.config)
               THEN Return(s, [nodeKey |-> "", err |-> Some(EnrollInvalidSecret)])
               ELSE /\ pc' = [pc EXCEPT ![s] = "EnrollHost"]
                    /\ UNCHANGED ret
    /\ UNCHANGED <<now, dsVars>>

\* ds.EnrollHost(hostIdentifier, svc.config.Osquery.NodeKeySize) and the return
EnrollAgentEnrollHost(s) ==
    /\ pc[s] = "EnrollHost"
    /\ \E r \in DsEnrollHost(req[s].hostIdentifier) :
         /\ calls' = [calls EXCEPT ![s] =
               Append(@, Call("EnrollHost",
                              <<req[s].hostIdentifier, svcConfig.Osquery.NodeKeySize>>,
                              r.err))]
         /\ IF r.err # "nil"
               THEN /\ Return(s, [nodeKey |-> "", err |-> Some(EnrollFailed)])
                    /\ UNCHANGED <<dsHosts, loc>>
               ELSE /\ dsHosts' = MapPut(dsHosts, r.host.NodeKey, r.host)
                    /\ loc' = [loc EXCEPT ![s] = [host |-> r.host]]
                    /\ Return(s, [nodeKey |-> r.host.NodeKey, err |-> None])
    /\ UNCHANGED <<now, nreq, polVars, orphaned,
                   appConfig, dsLabels, dsCampaigns, dsExecutions,
                   published, req, overlap>>

-----------------------------------------------------------------------------
(* Query name prefixes and the detail query registry *)

hostLabelQueryPrefix == <<"k", "o", "l", "i", "d", "e", "_", "l", "a", "b", "e", "l", "_", "q", "u", "e", "r", "y", "_">>

hostDetailQueryPrefix == <<"k", "o", "l", "i", "d", "e", "_", "d", "e", "t", "a", "i", "l", "_", "q", "u", "e", "r", "y", "_">>

hostDistributedQueryPrefix == <<"k", "o", "l", "i", "d", "e", "_", "d", "i", "s", "t", "r", "i", "b", "u", "t", "e", "d", "_", "q", "u", "e", "r", "y", "_">>

\* rows[i]["col"]: a missing key reads as the empty string
Col(row, col) == IF col \in DOMAIN row THEN row[col] ELSE <<>>

IngestOk(host) == [err |-> None, host |-> host]

IngestErr(host, text) == [err |-> Some(text), host |-> host]

ParseError == "strconv: parsing: invalid syntax"

\* the value left at zero on a parse error
ParseIntOrZero(val) ==
    LET r == Atoi(emptyToZero(val)) IN IF r.err THEN 0 ELSE r.val

\* strconv.ParseInt(emptyToZero(val), 10, 64), -1 on a parse error
ParseIntOrMinusOne(val) ==
    LET r == Atoi(emptyToZero(val)) IN IF r.err THEN 0 - 1 ELSE r.val

\* one kolide.NetworkInterface of the network_interface ingestion, and
\* whether a field whose parse error is returned failed to parse
NetworkInterface(row) ==
    LET lastChange == IF "last_change" \in DOMAIN row
                         THEN Atoi(emptyToZero(row["last_change"]))
                         ELSE [err |-> FALSE, val |-> 0]
        metric == Atoi(emptyToZero(Col(row, "metric")))
        mtu == Atoi(emptyToZero(Col(row, "mtu")))
        type == Atoi(emptyToZero(Col(row, "type")))
    IN  [err |-> lastChange.err \/ metric.err \/ mtu.err \/ type.err,
         nic |-> [MAC |-> Col(row, "mac"),
                  IPAddress |-> Col(row, "address"),
                  Broadcast |-> Col(row, "broadcast"),
                  IBytes |-> ParseIntOrMinusOne(Col(row, "ibytes")),
                  IErrors |-> ParseIntOrMinusOne(Col(row, "ierrors")),
                  Interface |-> Col(row, "interface"),
                  IPackets |-> ParseIntOrMinusOne(Col(row, "ipackets")),
                  LastChange |-> lastChange.val,
                  Mask |-> Col(row, "mask"),
                  Metric |-> metric.val,
                  MTU |-> mtu.val,
                  OBytes |-> ParseIntOrMinusOne(Col(row, "obytes")),
                  OErrors |-> ParseIntOrMinusOne(Col(row, "oerrors")),
                  OPackets |-> ParseIntOrMinusOne(Col(row, "opackets")),
                  PointToPoint |-> Col(row, "point_to_point"),
                  Type |-> type.val]]

IngestNetworkInterface(host, rows) ==
    IF Len(rows) = 0 THEN IngestOk(host)
    ELSE IF \E i \in 1..Len(rows) : NetworkInterface(rows[i]).err
       THEN IngestErr(host, ParseError)
       ELSE IngestOk([host EXCEPT !.NetworkInterfaces =
                        [i \in 1..Len(rows) |-> NetworkInterface(rows[i]).nic]])

IngestOSVersion(host, rows) ==
    IF Len(rows) # 1 THEN IngestOk(host)
    ELSE LET row == rows[1]
             version == TrimDots(Col(row, "name") \o <<" ">> \o Col(row, "major")
                                 \o <<".">> \o Col(row, "minor")
                                 \o <<".">> \o Col(row, "patch"))
             platform == IF Col(row, "platform") = <<>>
                            /\ Contains(ToLower(Col(row, "name")), <<"c", "e", "n", "t", "o", "s">>)
                            THEN <<"c", "e", "n", "t", "o", "s">>
                            ELSE Col(row, "platform")
         IN  IngestOk([host EXCEPT
                 !.OSVersion = version,
                 !.Build = IF "build" \in DOMAIN row THEN row["build"] ELSE @,
                 !.Platform = platform,
                 !.PlatformLike = Col(row, "platform_like"),
                 !.CodeName = Col(row, "code_name")])

FlagDistributedInterval == <<"d", "i", "s", "t", "r", "i", "b", "u", "t", "e", "d", "_", "i", "n", "t", "e", "r", "v", "a", "l">>

FlagConfigTLSRefresh == <<"c", "o", "n", "f", "i", "g", "_", "t", "l", "s", "_", "r", "e", "f", "r", "e", "s", "h">>

FlagConfigRefresh == <<"c", "o", "n", "f", "i", "g", "_", "r", "e", "f", "r", "e", "s", "h">>

FlagLoggerTLSPeriod == <<"l", "o", "g", "g", "e", "r", "_", "t", "l", "s", "_", "p", "e", "r", "i", "o", "d">>

FlagNames ==
    {FlagDistributedInterval, FlagConfigTLSRefresh, FlagConfigRefresh,
     FlagLoggerTLSPeriod}

\* the loop of the osquery_flags ingestion over rows[i..]: st is the host
\* with configTLSRefresh and configRefresh, and err says a value failed to parse
RECURSIVE IngestFlagRows(_, _, _)
IngestFlagRows(st, rows, i) ==
    IF i > Len(rows) THEN st
    ELSE LET name == Col(rows[i], "name")
             interval == Atoi(emptyToZero(Col(rows[i], "value")))
         IN  IF name \notin FlagNames THEN IngestFlagRows(st, rows, i + 1)
             ELSE IF interval.err THEN [st EXCEPT !.err = TRUE]
             ELSE IngestFlagRows(
                    CASE name = FlagDistributedInterval ->
                           [st EXCEPT !.host.DistributedInterval = ToUint(interval.val)]
                      [] name = FlagConfigTLSRefresh ->
                           [st EXCEPT !.configTLSRefresh = ToUint(interval.val)]
                      [] name = FlagConfigRefresh ->
                           [st EXCEPT !.configRefresh = ToUint(interval.val)]
                      [] name = FlagLoggerTLSPeriod ->
                           [st EXCEPT !.host.LoggerTLSPeriod = ToUint(interval.val)],
                    rows, i + 1)

\* the later flag name preferred
IngestOsqueryFlagsPreferRefresh(host, rows) ==
    LET st == IngestFlagRows([host |-> host, configTLSRefresh |-> 0,
                              configRefresh |-> 0, err |-> FALSE], rows, 1)
    IN  IF st.err THEN IngestErr(st.host, ParseError)
        ELSE IngestOk([st.host EXCEPT !.ConfigTLSRefresh =
                          IF st.configRefresh # 0 THEN st.configRefresh
                                                 ELSE st.configTLSRefresh])

IngestOsqueryFlags(host, rows) ==
    LET st == IngestFlagRows([host |-> host, configTLSRefresh |-> 0,
                              configRefresh |-> 0, err |-> FALSE], rows, 1)
    IN  IF st.err THEN IngestErr(st.host, ParseError)
        ELSE IngestOk([st.host EXCEPT !.ConfigTLSRefresh =
                          IF st.configTLSRefresh # 0 THEN st.configTLSRefresh
                                                    ELSE st.configRefresh])

\* the first row taken from a result of several rows
IngestOsqueryInfoFirstRow(host, rows) ==
    IF Len(rows) = 0 THEN IngestOk(host)
    ELSE IngestOk([host EXCEPT !.OsqueryVersion = Col(rows[1], "version")])

IngestOsqueryInfo(host, rows) ==
    IF Len(rows) # 1 THEN IngestOk(host)
    ELSE IngestOk([host EXCEPT !.OsqueryVersion = Col(rows[1], "version")])

IngestSystemInfo(host, rows) ==
    IF Len(rows) # 1 THEN IngestOk(host)
    ELSE LET row == rows[1]
             physicalMemory == Atoi(emptyToZero(Col(row, "physical_memory")))
             physicalCores == Atoi(emptyToZero(Col(row, "cpu_physical_cores")))
             logicalCores == Atoi(emptyToZero(Col(row, "cpu_logical_cores")))
             h1 == [host EXCEPT !.PhysicalMemory = physicalMemory.val]
             h2 == [h1 EXCEPT !.HostName = Col(row, "hostname"),
                              !.UUID = Col(row, "uuid"),
                              !.CPUType = Col(row, "cpu_type"),
                              !.CPUSubtype = Col(row, "cpu_subtype"),
                              !.CPUBrand = Col(row, "cpu_brand"),
                              !.CPUPhysicalCores = physicalCores.val]
             h3 == [h2 EXCEPT !.CPULogicalCores = logicalCores.val]
             h4 == [h3 EXCEPT !.HardwareVendor = Col(row, "hardware_vendor"),
                              !.HardwareModel = Col(row, "hardware_model"),
                              !.HardwareVersion = Col(row, "hardware_version"),
                              !.HardwareSerial = Col(row, "hardware_serial"),
                              !.ComputerName = Col(row, "computer_name")]
         IN  IF physicalMemory.err THEN IngestErr(h1, ParseError)
             ELSE IF physicalCores.err THEN IngestErr(h2, ParseError)
             ELSE IF logicalCores.err THEN IngestErr(h3, ParseError)
             ELSE IngestOk(h4)

\* the seconds added to the uptime the host has
IngestUptimeAccumulated(host, rows) ==
    IF Len(rows) # 1 THEN IngestOk(host)
    ELSE LET uptimeSeconds == Atoi(emptyToZero(Col(rows[1], "total_seconds")))
         IN  IF uptimeSeconds.err
                THEN IngestErr(host, ParseError)
                ELSE IngestOk([host EXCEPT !.Uptime = @ + uptimeSeconds.val])

IngestUptime(host, rows) ==
    IF Len(rows) # 1 THEN IngestOk(host)
    ELSE LET uptimeSeconds == Atoi(emptyToZero(Col(rows[1], "total_seconds")))
         IN  IF uptimeSeconds.err
                THEN IngestErr(host, ParseError)
                ELSE IngestOk([host EXCEPT !.Uptime = uptimeSeconds.val])

DetailNameNetworkInterface == <<"n", "e", "t", "w", "o", "r", "k", "_", "i", "n", "t", "e", "r", "f", "a", "c", "e">>

DetailNameOSVersion == <<"o", "s", "_", "v", "e", "r", "s", "i", "o", "n">>

DetailNameOsqueryFlags == <<"o", "s", "q", "u", "e", "r", "y", "_", "f", "l", "a", "g", "s">>

DetailNameOsqueryInfo == <<"o", "s", "q", "u", "e", "r", "y", "_", "i", "n", "f", "o">>

DetailNameSystemInfo == <<"s", "y", "s", "t", "e", "m", "_", "i", "n", "f", "o">>

DetailNameUptime == <<"u", "p", "t", "i", "m", "e">>

detailQueryNames ==
    {DetailNameNetworkInterface, DetailNameOSVersion, DetailNameOsqueryFlags,
     DetailNameOsqueryInfo, DetailNameSystemInfo, DetailNameUptime}

\* detailQueries[name].IngestFunc(logger, host, rows)
IngestFunc(name, host, rows) ==
    CASE name = DetailNameNetworkInterface -> IngestNetworkInterface(host, rows)
      [] name = DetailNameOSVersion -> IngestOSVersion(host, rows)
      [] name = DetailNameOsqueryFlags -> IngestOsqueryFlags(host, rows)
      [] name = DetailNameOsqueryInfo -> IngestOsqueryInfo(host, rows)
      [] name = DetailNameSystemInfo -> IngestSystemInfo(host, rows)
      [] name = DetailNameUptime -> IngestUptime(host, rows)

-----------------------------------------------------------------------------
(* The ingestion handlers *)

\* the caller's err.Error()
ErrorText(e) == e.message

\* errors.Wrap(err, message)
WrapError(message, text) ==
    [type |-> "wrapped", message |-> <<message, ": ", text>>, nodeInvalid |-> FALSE]

ingestDetailQuery(host, name, rows) ==
    LET trimmedQuery == TrimPrefix(name, hostDetailQueryPrefix) IN
    IF trimmedQuery \notin detailQueryNames
       THEN [err |-> Some(osqueryErrorMsg(<<"unknown detail query ">>)), host |-> host]
       ELSE LET r == IngestFunc(trimmedQuery, host, rows) IN
            IF r.err # None
               THEN [err |-> Some(osqueryErrorMsg(<<"ingesting query: ", r.err[1]>>)),
                     host |-> r.host]
               ELSE [err |-> None, host |-> r.host]

\* len(rows) >= 0
LabelMatchesAlways(rows) == Len(rows) >= 0

\* a label query matches if there is at least one result for that query
LabelMatches(rows) == Len(rows) > 0

ingestLabelQuery(host, query, rows, results) ==
    LET trimmedQuery == TrimPrefix(query, hostLabelQueryPrefix)
        trimmedQueryNum == Atoi(emptyToZero(trimmedQuery))
    IN  IF trimmedQueryNum.err
           THEN [err |-> Some(WrapError("converting query from string to int",
                                        "strconv.Atoi: parsing: invalid syntax")),
                 results |-> results]
           ELSE [err |-> None,
                 results |-> MapPut(results, ToUint(trimmedQueryNum.val),
                                    LabelMatches(rows))]

StatusOK == "0"

QueryRunning == "running"

QueryComplete == "complete"

ExecutionSucceeded == "succeeded"

ExecutionFailed == "failed"

\* every result taken for a result of campaign 1
DistributedQueryResultOfCampaign1(host, name, rows, failed) ==
    [err |-> None,
     res |-> Some([DistributedQueryCampaignID |-> 1, Host |-> host,
                   Rows |-> rows,
                   Error |-> IF failed THEN Some("failed") ELSE None])]

\* the campaign id and the result envelope of ingestDistributedQuery
DistributedQueryResult(host, name, rows, failed) ==
    LET trimmedQuery == TrimPrefix(name, hostDistributedQueryPrefix)
        campaignID == Atoi(emptyToZero(trimmedQuery))
    IN  IF campaignID.err
           THEN [err |-> Some(osqueryErrorMsg(<<"unable to parse campaign ID: ">>)),
                 res |-> None]
           ELSE [err |-> None,
                 res |-> Some([DistributedQueryCampaignID |-> ToUint(campaignID.val),
                               Host |-> host,
                               Rows |-> rows,
                               Error |-> IF failed THEN Some("failed") ELSE None])]

\* every pub/sub error taken for a missing subscriber
IsNoSubscriberAnyPubsubError(e) == e \in {"NoSubscriber", "pubsubError"}

\* a pubsub.Error whose NoSubscriber() holds
IsNoSubscriber(e) == e = "NoSubscriber"

\* resultStore.WriteResult(res): delivered, no subscriber, another
\* pubsub.Error, or an error of another type
WriteResultOutcomes == {"nil", "NoSubscriber", "pubsubError", "error"}

\* ds.DistributedQueryCampaign(id)
DsDistributedQueryCampaign(id) ==
    (IF id \in DOMAIN dsCampaigns
        THEN {[err |-> "nil", campaign |-> dsCampaigns[id]]}
        ELSE {})
    \cup {[err |-> "error", campaign |-> [ID |-> 0, Status |-> ""]]}

\* ds.RecordLabelQueryExecutions(host, results, t): the host's membership of
\* each label of the results, as of t
DsRecordLabelQueryExecutions(labels, host, results, t) ==
    [x \in DOMAIN labels \cup {<<host.ID, l>> : l \in DOMAIN results} |->
        IF x[1] = host.ID /\ x[2] \in DOMAIN results
           THEN [Matches |-> results[x[2]], UpdatedAt |-> t]
           ELSE labels[x]]

\* ds.SaveHost(host): the stored detail fields and intervals become the host's
DsSaveHost(hosts, host) ==
    IF host.NodeKey \in DOMAIN hosts
       THEN [hosts EXCEPT ![host.NodeKey] =
                [host EXCEPT !.SeenTime = hosts[host.NodeKey].SeenTime]]
       ELSE hosts

-----------------------------------------------------------------------------
(* SubmitDistributedQueryResults *)

\* the default case returning no error
SubmitUnknownPrefixIgnored == None

SubmitUnknownPrefix == Some(osqueryErrorMsg(<<"unknown query prefix: ">>))

SubmitIngestError(e) ==
    osqueryErrorMsg(<<"failed to ingest result: ">> \o ErrorText(e))

SubmitMissingHost ==
    osqueryErrorMsg(<<"internal error: missing host from request context">>)

\* a host found in every context
HostFromContextAlways(s) ==
    [ok |-> TRUE,
     host |-> IF pc[s] = "returned" THEN ret[s].host[1] ELSE ZeroHost]

\* hostctx.FromContext(ctx): the host the caller authenticated, if any
HostFromContext(s) ==
    IF pc[s] = "returned"
       THEN [ok |-> TRUE, host |-> ret[s].host[1]]
       ELSE [ok |-> FALSE, host |-> ZeroHost]

SubmitReturn(s, e) == Return(s, [err |-> e])

\* a query without a reported status counted as failed
QueryFailedUnlessOK(ok, status) == status # StatusOK

\* failed := (ok && status != kolide.StatusOK)
QueryFailed(ok, status) == ok /\ status # StatusOK

\* the label write made whatever the results
HasLabelResultsAlways(labelResults) == TRUE

\* len(labelResults) > 0
HasLabelResults(labelResults) == DOMAIN labelResults # {}

\* the host saved only after a detail query
NeedsSaveHostDetailOnly(labelResults, detailUpdated) == detailUpdated

\* len(labelResults) > 0 || detailUpdated
NeedsSaveHost(labelResults, detailUpdated) ==
    DOMAIN labelResults # {} \/ detailUpdated

\* the call, with or without an authenticated host in its context
SubmitDistributedQueryResults(s, results, statuses) ==
    /\ \/ /\ pc[s] = "idle"
          /\ nreq < MaxRequests
          /\ nreq' = nreq + 1
       \/ /\ pc[s] = "returned"
          /\ req[s].op = "AuthenticateHost"
          /\ ret[s].host # None
          /\ UNCHANGED nreq
    /\ req' = [req EXCEPT ![s] =
          [op |-> "SubmitDistributedQueryResults", results |-> results,
           statuses |-> statuses, authenticated |-> HostFromContext(s).ok]]
    /\ overlap' = BeginOverlap(s)
    /\ calls' = [calls EXCEPT ![s] = <<>>]
    /\ LET ctx == HostFromContext(s) IN
       IF ~ctx.ok
          THEN /\ pc' = [pc EXCEPT ![s] = "returned"]
               /\ ret' = [ret EXCEPT ![s] = [err |-> Some(SubmitMissingHost)]]
               /\ loc' = [loc EXCEPT ![s] = <<>>]
          ELSE /\ pc' = [pc EXCEPT ![s] = "loop"]
               /\ ret' = [ret EXCEPT ![s] = <<>>]
               /\ loc' = [loc EXCEPT ![s] =
                     [host |-> ctx.host, remaining |-> results,
                      detailUpdated |-> FALSE, labelResults |-> EmptyMap,
                      query |-> <<>>, res |-> None, campaign |-> None, t |-> 0]]
    /\ UNCHANGED <<now, dsVars>>

\* one iteration of the loop over the results, in any order, up to the
\* publish of a distributed query result
SubmitLoop(s) ==
    /\ pc[s] = "loop"
    /\ \E query \in DOMAIN loc[s].remaining :
         LET rows == loc[s].remaining[query]
             host == loc[s].host
             rest == MapDelete(loc[s].remaining, query)
         IN
         CASE HasPrefix(query, hostDetailQueryPrefix) ->
                LET r == ingestDetailQuery(host, query, rows) IN
                /\ loc' = [loc EXCEPT ![s].host = r.host, ![s].detailUpdated = TRUE,
                                      ![s].query = query, ![s].remaining = rest]
                /\ IF r.err # None
                      THEN SubmitReturn(s, Some(SubmitIngestError(r.err[1])))
                      ELSE UNCHANGED <<pc, ret>>
           [] HasPrefix(query, hostLabelQueryPrefix) ->
                LET r == ingestLabelQuery(host, query, rows, loc[s].labelResults) IN
                /\ loc' = [loc EXCEPT ![s].labelResults = r.results,
                                      ![s].query = query, ![s].remaining = rest]
                /\ IF r.err # None
                      THEN SubmitReturn(s, Some(SubmitIngestError(r.err[1])))
                      ELSE UNCHANGED <<pc, ret>>
           [] HasPrefix(query, hostDistributedQueryPrefix) ->
                LET ok == query \in DOMAIN req[s].statuses
                    status == IF ok THEN req[s].statuses[query] ELSE ""
                    failed == QueryFailed(ok, status)
                    r == DistributedQueryResult(host, query, rows, failed)
                IN
                /\ loc' = [loc EXCEPT ![s].res = r.res,
                                      ![s].query = query, ![s].remaining = rest]
                /\ IF r.err # None
                      THEN SubmitReturn(s, Some(SubmitIngestError(r.err[1])))
                      ELSE /\ pc' = [pc EXCEPT ![s] = "WriteResult"]
                           /\ UNCHANGED ret
           [] OTHER ->
                /\ loc' = [loc EXCEPT ![s].query = query, ![s].remaining = rest]
                /\ IF SubmitUnknownPrefix # None
                      THEN SubmitReturn(s, Some(SubmitIngestError(SubmitUnknownPrefix[1])))
                      ELSE UNCHANGED <<pc, ret>>
    /\ UNCHANGED <<now, nreq, dsVars, req, calls, overlap>>

IngestFailed(s, message) ==
    SubmitReturn(s, Some(SubmitIngestError(osqueryErrorMsg(<<message, ErrText>>))))

\* svc.resultStore.WriteResult(res)
IngestWriteResult(s) ==
    /\ pc[s] = "WriteResult"
    /\ \E e \in WriteResultOutcomes :
         /\ calls' = [calls EXCEPT ![s] =
               Append(@, Call("WriteResult", loc[s].res[1], e))]
         /\ IF e = "nil"
               THEN /\ published' = Append(published, loc[s].res[1])
                    /\ pc' = [pc EXCEPT ![s] = "NewDistributedQueryExecution"]
                    /\ UNCHANGED ret
               ELSE /\ UNCHANGED published
                    /\ IF IsNoSubscriber(e)
                          THEN /\ pc' = [pc EXCEPT ![s] = "DistributedQueryCampaign"]
                               /\ UNCHANGED ret
                          ELSE IngestFailed(s, "writing results: ")
    /\ UNCHANGED <<now, nreq, polVars, orphaned,
                   appConfig, dsHosts, dsLabels, dsCampaigns,
                   dsExecutions, req, loc, overlap>>

\* the campaign saved as it was loaded
ClosedCampaignUnchanged(campaign) == campaign

\* campaign.Status = kolide.QueryComplete
ClosedCampaign(campaign) == [campaign EXCEPT !.Status = QueryComplete]

\* svc.ds.DistributedQueryCampaign(campaignID), for an orphaned campaign
IngestLoadCampaign(s) ==
    /\ pc[s] = "DistributedQueryCampaign"
    /\ LET id == loc[s].res[1].DistributedQueryCampaignID IN
       \E r \in DsDistributedQueryCampaign(id) :
         /\ calls' = [calls EXCEPT ![s] =
               Append(@, Call("DistributedQueryCampaign", id, r.err))]
         /\ IF r.err # "nil"
               THEN /\ IngestFailed(s, "loading orphaned campaign: ")
                    /\ UNCHANGED loc
               ELSE /\ loc' = [loc EXCEPT ![s].campaign =
                          Some(ClosedCampaign(r.campaign))]
                    /\ pc' = [pc EXCEPT ![s] = "SaveDistributedQueryCampaign"]
                    /\ UNCHANGED ret
    /\ UNCHANGED <<now, nreq, dsVars, req, overlap>>

\* svc.ds.SaveDistributedQueryCampaign(campaign)
IngestSaveCampaign(s) ==
    /\ pc[s] = "SaveDistributedQueryCampaign"
    /\ LET campaign == loc[s].campaign[1] IN
       \E e \in {"nil", "error"} :
         /\ calls' = [calls EXCEPT ![s] =
               Append(@, Call("SaveDistributedQueryCampaign", campaign, e))]
         /\ IF e # "nil"
               THEN /\ IngestFailed(s, "closing orphaned campaign: ")
                    /\ UNCHANGED <<dsCampaigns, orphaned>>
               ELSE /\ dsCampaigns' = MapPut(dsCampaigns, campaign.ID, campaign)
                    /\ orphaned' = orphaned \cup {campaign.ID}
                    /\ pc' = [pc EXCEPT ![s] = "NewDistributedQueryExecution"]
                    /\ UNCHANGED ret
    /\ UNCHANGED <<now, nreq, polVars,
                   appConfig, dsHosts, dsLabels, dsExecutions,
                   published, req, loc, overlap>>

\* svc.ds.NewDistributedQueryExecution(exec)
IngestNewExecution(s) ==
    /\ pc[s] = "NewDistributedQueryExecution"
    /\ LET res == loc[s].res[1]
           exec == [HostID |-> res.Host.ID,
                    DistributedQueryCampaignID |-> res.DistributedQueryCampaignID,
                    Status |-> IF res.Error # None THEN ExecutionFailed
                                                  ELSE ExecutionSucceeded]
       IN
       \E e \in {"nil", "error"} :
         /\ calls' = [calls EXCEPT ![s] =
               Append(@, Call("NewDistributedQueryExecution", exec, e))]
         /\ IF e # "nil"
               THEN /\ IngestFailed(s, "recording execution: ")
                    /\ UNCHANGED dsExecutions
               ELSE /\ dsExecutions' = Append(dsExecutions, exec)
                    /\ pc' = [pc EXCEPT ![s] = "loop"]
                    /\ UNCHANGED ret
    /\ UNCHANGED <<now, nreq, polVars, orphaned,
                   appConfig, dsHosts, dsLabels, dsCampaigns,
                   published, req, loc, overlap>>

\* the code that follows the label write: the detail update time, and
\* whether the host is saved
SubmitBeforeSaveHost(s, host) ==
    IF NeedsSaveHost(loc[s].labelResults, loc[s].detailUpdated)
       THEN /\ loc' = [loc EXCEPT ![s].host =
                  IF loc[s].detailUpdated
                     THEN [host EXCEPT !.DetailUpdateTime = ClockNow]
                     ELSE host]
            /\ pc' = [pc EXCEPT ![s] = "SaveHost"]
            /\ UNCHANGED ret
       ELSE /\ SubmitReturn(s, None)
            /\ UNCHANGED loc

\* the end of the loop
SubmitAfterLoop(s) ==
    /\ pc[s] = "loop"
    /\ DOMAIN loc[s].remaining = {}
    /\ IF HasLabelResults(loc[s].labelResults)
          THEN /\ loc' = [loc EXCEPT ![s].t = ClockNow]
               /\ pc' = [pc EXCEPT ![s] = "RecordLabelQueryExecutions"]
               /\ UNCHANGED ret
          ELSE SubmitBeforeSaveHost(s, loc[s].host)
    /\ UNCHANGED <<now, nreq, dsVars, req, calls, overlap>>

\* svc.ds.RecordLabelQueryExecutions(&host, labelResults, svc.clock.Now())
SubmitRecordLabels(s) ==
    /\ pc[s] = "RecordLabelQueryExecutions"
    /\ \E e \in {"nil", "error"} :
         /\ calls' = [calls EXCEPT ![s] =
               Append(@, Call("RecordLabelQueryExecutions",
                              <<loc[s].host.ID, loc[s].labelResults, loc[s].t>>, e))]
         /\ IF e # "nil"
               THEN /\ SubmitReturn(s, Some(osqueryErrorMsg(
                                         <<"failed to save labels: ", ErrText>>)))
                    /\ UNCHANGED <<dsLabels, loc>>
               ELSE /\ dsLabels' = DsRecordLabelQueryExecutions(
                                      dsLabels, loc[s].host, loc[s].labelResults, loc[s].t)
                    /\ SubmitBeforeSaveHost(s, loc[s].host)
    /\ UNCHANGED <<now, nreq, polVars, orphaned,
                   appConfig, dsHosts, dsCampaigns, dsExecutions,
                   published, req, overlap>>

\* svc.ds.SaveHost(&host) and the return
SubmitSaveHost(s) ==
    /\ pc[s] = "SaveHost"
    /\ \E e \in {"nil", "error"} :
         /\ calls' = [calls EXCEPT ![s] =
               Append(@, Call("SaveHost", loc[s].host, e))]
         /\ IF e # "nil"
               THEN /\ SubmitReturn(s, Some(osqueryErrorMsg(
                                         <<"failed to update host details: ", ErrText>>)))
                    /\ UNCHANGED dsHosts
               ELSE /\ dsHosts' = DsSaveHost(dsHosts, loc[s].host)
                    /\ SubmitReturn(s, None)
    /\ UNCHANGED <<now, nreq, polVars, orphaned,
                   appConfig, dsLabels, dsCampaigns, dsExecutions,
                   published, req, loc, overlap>>

-----------------------------------------------------------------------------
(* GetDistributedQueries *)

RECURSIVE NatDigits(_)
NatDigits(n) ==
    IF n < 10 THEN <<DecimalDigits[n + 1]>>
    ELSE NatDigits(n \div 10) \o <<DecimalDigits[(n % 10) + 1]>>

\* strconv.Itoa
Itoa(i) == IF i < 0 THEN <<"-">> \o NatDigits(0 - i) ELSE NatDigits(i)

\* int(id) of an unsigned id
ToInt(u) == IF u >= 2^29 THEN u - 2^30 ELSE u

\* the Query of each entry of the detailQueries registry
DetailQuery ==
    [name \in detailQueryNames |->
        CASE name = DetailNameNetworkInterface ->
               "select ia.interface, address, mask, broadcast, point_to_point, id.interface, mac, id.type, mtu, metric, ipackets, opackets, ibytes, obytes, ierrors, oerrors, idrops, odrops, last_change from interface_details id join interface_addresses ia on ia.interface = id.interface where length(mac) > 0 order by (ibytes + obytes) desc"
          [] name = DetailNameOSVersion -> "select * from os_version limit 1"
          [] name = DetailNameOsqueryFlags ->
               "select name, value from osquery_flags where name in (\"distributed_interval\", \"config_tls_refresh\", \"config_refresh\", \"logger_tls_period\")"
          [] name = DetailNameOsqueryInfo -> "select * from osquery_info limit 1"
          [] name = DetailNameSystemInfo -> "select * from system_info limit 1"
          [] name = DetailNameUptime -> "select * from uptime limit 1"]

\* one hour, in the unit of the clock
detailUpdateInterval == 1

\* details exactly one interval old taken for fresh
DetailsFreshAtCutoff(updateTime, t) == updateTime >= t - detailUpdateInterval

\* host.DetailUpdateTime.After(svc.clock.Now().Add(-detailUpdateInterval))
DetailsFresh(updateTime, t) == updateTime > t - detailUpdateInterval

hostDetailQueries(host) ==
    IF DetailsFresh(host.DetailUpdateTime, ClockNow)
       THEN EmptyMap
       ELSE [q \in {hostDetailQueryPrefix \o name : name \in detailQueryNames} |->
                DetailQuery[TrimPrefix(q, hostDetailQueryPrefix)]]

\* the labels table: label id -> query
dsLabelQueries ==
    (1 :> "select 1 from osquery_info") @@ (2 :> "select 1 from os_version")

\* the campaigns table: campaign id -> query
dsCampaignQueries ==
    (1 :> "select * from time") @@ (12 :> "select * from processes")

\* ds.LabelQueriesForHost(host, cutoff): the queries of the labels whose
\* membership of the host was never evaluated or was evaluated before the
\* cutoff, by the decimal id of the label; or an error
DsLabelQueriesForHost(host, cutoff) ==
    LET due == {l \in DOMAIN dsLabelQueries :
                   \/ <<host.ID, l>> \notin DOMAIN dsLabels
                   \/ dsLabels[<<host.ID, l>>].UpdatedAt < cutoff}
    IN  {[err |-> "nil",
          queries |-> [name \in {Itoa(l) : l \in due} |->
                          dsLabelQueries[CHOOSE l \in due : Itoa(l) = name]]],
         [err |-> "error", queries |-> EmptyMap]}

\* ds.DistributedQueriesForHost(host): the queries of the running campaigns,
\* by campaign id; or an error
DsDistributedQueriesForHost(host) ==
    {[err |-> "nil",
      queries |-> [c \in {c \in DOMAIN dsCampaigns :
                             dsCampaigns[c].Status = QueryRunning} |->
                      dsCampaignQueries[c]]],
     [err |-> "error", queries |-> EmptyMap]}

\* the queries replaced by the entries of more
MergeQueriesReplaced(queries, more) == more

\* queries[name] = query, for each entry of more
MergeQueries(queries, more) ==
    [q \in DOMAIN queries \cup DOMAIN more |->
        IF q \in DOMAIN more THEN more[q] ELSE queries[q]]

\* hostLabelQueryPrefix+name, for each label query
PrefixedLabelQueries(labelQueries) ==
    [q \in {hostLabelQueryPrefix \o name : name \in DOMAIN labelQueries} |->
        labelQueries[TrimPrefix(q, hostLabelQueryPrefix)]]

\* the campaigns dispatched under the label prefix
PrefixedCampaignQueriesAsLabels(distributedQueries) ==
    [q \in {hostLabelQueryPrefix \o Itoa(ToInt(id)) :
               id \in DOMAIN distributedQueries} |->
        distributedQueries[CHOOSE id \in DOMAIN distributedQueries :
                              q = hostLabelQueryPrefix \o Itoa(ToInt(id))]]

\* hostDistributedQueryPrefix+strconv.Itoa(int(id)), for each campaign
PrefixedCampaignQueries(distributedQueries) ==
    [q \in {hostDistributedQueryPrefix \o Itoa(ToInt(id)) :
               id \in DOMAIN distributedQueries} |->
        distributedQueries[CHOOSE id \in DOMAIN distributedQueries :
                              q = hostDistributedQueryPrefix \o Itoa(ToInt(id))]]

\* a host with either field empty taken as just enrolling
AccelerateEitherEmpty(host) ==
    IF host.HostName = <<>> \/ host.Platform = <<>> THEN 10 ELSE 0

\* the acceleration of the checkins of a host that is just enrolling
Accelerate(host) ==
    IF host.HostName = <<>> /\ host.Platform = <<>> THEN 10 ELSE 0

GetRetrievingLabelsError ==
    osqueryErrorMsg(<<"retrieving label queries: ", ErrText>>)

GetRetrievingCampaignsError ==
    osqueryErrorMsg(<<"retrieving query campaigns: ", ErrText>>)

GetReturn(s, queries, accelerate, e) ==
    Return(s, [queries |-> queries, accelerate |-> accelerate, err |-> e])

\* the call, with or without an authenticated host in its context, up to
\* the lookup of the label queries
GetDistributedQueries(s) ==
    /\ \/ /\ pc[s] = "idle"
          /\ nreq < MaxRequests
          /\ nreq' = nreq + 1
       \/ /\ pc[s] = "returned"
          /\ req[s].op = "AuthenticateHost"
          /\ ret[s].host # None
          /\ UNCHANGED nreq
    /\ req' = [req EXCEPT ![s] =
          [op |-> "GetDistributedQueries",
           authenticated |-> HostFromContext(s).ok]]
    /\ overlap' = BeginOverlap(s)
    /\ calls' = [calls EXCEPT ![s] = <<>>]
    /\ LET ctx == HostFromContext(s) IN
       IF ~ctx.ok
          THEN /\ GetReturn(s, None, 0, Some(SubmitMissingHost))
               /\ loc' = [loc EXCEPT ![s] = <<>>]
          ELSE /\ pc' = [pc EXCEPT ![s] = "LabelQueriesForHost"]
               /\ ret' = [ret EXCEPT ![s] = <<>>]
               /\ loc' = [loc EXCEPT ![s] =
                     [host |-> ctx.host, t |-> ClockNow,
                      detailQueries |-> hostDetailQueries(ctx.host),
                      queries |-> hostDetailQueries(ctx.host),
                      cutoff |-> ClockNow - svcConfig.Osquery.LabelUpdateInterval,
                      labelQueries |-> EmptyMap,
                      distributedQueries |-> EmptyMap]]
    /\ UNCHANGED <<now, dsVars>>

\* svc.ds.LabelQueriesForHost(&host, cutoff) and the label queries added
GetLabelQueries(s) ==
    /\ pc[s] = "LabelQueriesForHost"
    /\ \E r \in DsLabelQueriesForHost(loc[s].host, loc[s].cutoff) :
         /\ calls' = [calls EXCEPT ![s] =
               Append(@, Call("LabelQueriesForHost",
                              <<loc[s].host.ID, loc[s].cutoff>>, r.err))]
         /\ IF r.err # "nil"
               THEN /\ GetReturn(s, None, 0, Some(GetRetrievingLabelsError))
                    /\ UNCHANGED loc
               ELSE /\ loc' = [loc EXCEPT
                          ![s].labelQueries = r.queries,
                          ![s].queries =
                              MergeQueries(@, PrefixedLabelQueries(r.queries))]
                    /\ pc' = [pc EXCEPT ![s] = "DistributedQueriesForHost"]
                    /\ UNCHANGED ret
    /\ UNCHANGED <<now, nreq, dsVars, req, overlap>>

\* svc.ds.DistributedQueriesForHost(&host), the campaigns added, and the
\* return
GetCampaignQueries(s) ==
    /\ pc[s] = "DistributedQueriesForHost"
    /\ \E r \in DsDistributedQueriesForHost(loc[s].host) :
         /\ calls' = [calls EXCEPT ![s] =
               Append(@, Call("DistributedQueriesForHost", loc[s].host.ID, r.err))]
         /\ IF r.err # "nil"
               THEN /\ GetReturn(s, None, 0, Some(GetRetrievingCampaignsError))
                    /\ UNCHANGED loc
               ELSE /\ loc' = [loc EXCEPT
                          ![s].distributedQueries = r.queries,
                          ![s].queries =
                              MergeQueries(@, PrefixedCampaignQueries(r.queries))]
                    /\ GetReturn(s, Some(loc'[s].queries),
                                 Accelerate(loc[s].host), None)
    /\ UNCHANGED <<now, nreq, dsVars, req, overlap>>

-----------------------------------------------------------------------------
(* GetClientConfig *)

\* the options of the base configurations: none, or one or both of the two
\* intervals, each value as the digits of a number or as a string that is no
\* number
BaseOptions ==
    {EmptyMap,
     "distributed_interval" :> <<"0">>,
     "distributed_interval" :> <<"5">>,
     "distributed_interval" :> <<"x">>,
     "logger_tls_period" :> <<"5">>,
     ("distributed_interval" :> <<"5">>) @@ ("logger_tls_period" :> <<"x">>)}

\* the base configurations of the options table, as json.Unmarshal reads
\* them: bytes that are no JSON object, an object without options, and
\* objects with options
BaseConfigs ==
    {[valid |-> FALSE, options |-> None], [valid |-> TRUE, options |-> None]}
    \cup {[valid |-> TRUE, options |-> Some(o)] : o \in BaseOptions}

\* ds.OptionsForPlatform(platform): a base configuration, or an error
DsOptionsForPlatform(platform) ==
    {[err |-> "nil", baseConfig |-> c] : c \in BaseConfigs}
    \cup {[err |-> "error", baseConfig |-> [valid |-> FALSE, options |-> None]]}

\* the packs table
dsPacks ==
    <<[ID |-> 1, Name |-> "pack1", Platform |-> "linux"],
      [ID |-> 2, Name |-> "pack2", Platform |-> ""]>>

\* the scheduled queries of each pack
dsScheduledQueries ==
    (1 :> <<[Name |-> "q1", Query |-> "select 1", Interval |-> 60,
             Platform |-> None, Version |-> None, Removed |-> Some(FALSE),
             Shard |-> None, Snapshot |-> Some(TRUE)],
            [Name |-> "q2", Query |-> "select 2", Interval |-> 10,
             Platform |-> None, Version |-> None, Removed |-> None,
             Shard |-> None, Snapshot |-> Some(FALSE)]>>)
    @@ (2 :> <<>>)

\* ds.ListPacksForHost(hostID): the packs that target the host, or an error
DsListPacksForHost(hostID) ==
    {[err |-> "nil", packs |-> SubSeq(dsPacks, 1, n)] : n \in 0..Len(dsPacks)}
    \cup {[err |-> "error", packs |-> <<>>]}

\* ds.ListScheduledQueriesInPack(packID, opts)
DsListScheduledQueriesInPack(packID) ==
    {[err |-> "nil", queries |-> dsScheduledQueries[packID]],
     [err |-> "error", queries |-> <<>>]}

\* the content of a scheduled query in the configuration: the snapshot flag
\* is kept only when it is set and true
QueryContent(query) ==
    [Query |-> query.Query, Interval |-> query.Interval,
     Platform |-> query.Platform, Version |-> query.Version,
     Removed |-> query.Removed, Shard |-> query.Shard,
     Snapshot |-> IF query.Snapshot = Some(TRUE) THEN query.Snapshot ELSE None]

\* configQueries[query.Name] = queryContent, for the queries in order
PackContent(pack, queries) ==
    [Platform |-> pack.Platform,
     Queries |-> [name \in {queries[i].Name : i \in 1..Len(queries)} |->
                    QueryContent(queries[
                        CHOOSE i \in 1..Len(queries) :
                           /\ queries[i].Name = name
                           /\ \A j \in (i + 1)..Len(queries) :
                                 queries[j].Name # name])]]

\* cast.ToUintE of an option value: a number that is not negative converts,
\* a string that is no number does not
ToUintE(v) ==
    LET r == Atoi(v) IN
    IF r.err \/ r.val < 0 THEN [err |-> TRUE, val |-> 0]
                          ELSE [err |-> FALSE, val |-> r.val]

\* the interval of the host after the option of that name was read
UpdatedInterval(config, option, interval) ==
    IF config.options = None THEN interval
    ELSE LET options == config.options[1]
             ok == option \in DOMAIN options
             r == IF ok THEN ToUintE(options[option])
                        ELSE [err |-> FALSE, val |-> 0]
         IN  IF ok /\ ~r.err /\ interval # r.val THEN r.val ELSE interval

ConfigMissingHost ==
    osqueryErrorMsg(<<"internal error: missing host from request context">>)

ConfigBaseError ==
    osqueryErrorMsg(<<"internal error: fetching base config: ", ErrText>>)

ConfigParseError ==
    osqueryErrorMsg(<<"internal error: parsing base configuration: ", ErrText>>)

ConfigDatabaseError ==
    osqueryErrorMsg(<<"database error: ", ErrText>>)

\* the error of svc.ds.SaveHost, returned as the datastore gave it
ConfigSaveHostError == [type |-> "error", message |-> <<ErrText>>]

ConfigReturn(s, config, e) == Return(s, [config |-> config, err |-> e])

\* the call, with or without an authenticated host in its context, up to
\* the lookup of the base configuration
GetClientConfig(s) ==
    /\ \/ /\ pc[s] = "idle"
          /\ nreq < MaxRequests
          /\ nreq' = nreq + 1
       \/ /\ pc[s] = "returned"
          /\ req[s].op = "AuthenticateHost"
          /\ ret[s].host # None
          /\ UNCHANGED nreq
    /\ req' = [req EXCEPT ![s] =
          [op |-> "GetClientConfig", authenticated |-> HostFromContext(s).ok]]
    /\ overlap' = BeginOverlap(s)
    /\ calls' = [calls EXCEPT ![s] = <<>>]
    /\ LET ctx == HostFromContext(s) IN
       IF ~ctx.ok
          THEN /\ ConfigReturn(s, None, Some(ConfigMissingHost))
               /\ loc' = [loc EXCEPT ![s] = <<>>]
          ELSE /\ pc' = [pc EXCEPT ![s] = "OptionsForPlatform"]
               /\ ret' = [ret EXCEPT ![s] = <<>>]
               /\ loc' = [loc EXCEPT ![s] =
                     [host |-> ctx.host,
                      config |-> [options |-> None, packs |-> None],
                      packs |-> <<>>, packConfig |-> EmptyMap]]
    /\ UNCHANGED <<now, dsVars>>

\* svc.ds.OptionsForPlatform(host.Platform) and json.Unmarshal
ConfigOptions(s) ==
    /\ pc[s] = "OptionsForPlatform"
    /\ \E r \in DsOptionsForPlatform(loc[s].host.Platform) :
         /\ calls' = [calls EXCEPT ![s] =
               Append(@, Call("OptionsForPlatform", loc[s].host.Platform, r.err))]
         /\ IF r.err # "nil"
               THEN /\ ConfigReturn(s, None, Some(ConfigBaseError))
                    /\ UNCHANGED loc
               ELSE IF ~r.baseConfig.valid
               THEN /\ ConfigReturn(s, None, Some(ConfigParseError))
                    /\ UNCHANGED loc
               ELSE /\ loc' = [loc EXCEPT ![s].config.options =
                                                r.baseConfig.options]
                    /\ pc' = [pc EXCEPT ![s] = "ListPacksForHost"]
                    /\ UNCHANGED ret
    /\ UNCHANGED <<now, nreq, dsVars, req, overlap>>

\* the code that follows the loop over the packs: the packs added to the
\* configuration (json.Marshal does not fail on a map of pack contents), the
\* intervals of the options, and whether the host is saved
ConfigAfterPacks(s, packConfig) ==
    LET config == [loc[s].config EXCEPT
                      !.packs = IF DOMAIN packConfig # {}
                                   THEN Some(packConfig) ELSE None]
        host == loc[s].host
        updated == [host EXCEPT
                       !.DistributedInterval =
                           UpdatedInterval(config, "distributed_interval", @),
                       !.LoggerTLSPeriod =
                           UpdatedInterval(config, "logger_tls_period", @)]
        saveHost == updated # host
    IN  /\ loc' = [loc EXCEPT ![s].config = config, ![s].host = updated,
                              ![s].packConfig = packConfig, ![s].packs = <<>>]
        /\ IF saveHost
              THEN /\ pc' = [pc EXCEPT ![s] = "ConfigSaveHost"]
                   /\ UNCHANGED ret
              ELSE ConfigReturn(s, Some(config), None)

\* svc.ds.ListPacksForHost(host.ID)
ConfigListPacks(s) ==
    /\ pc[s] = "ListPacksForHost"
    /\ \E r \in DsListPacksForHost(loc[s].host.ID) :
         /\ calls' = [calls EXCEPT ![s] =
               Append(@, Call("ListPacksForHost", loc[s].host.ID, r.err))]
         /\ IF r.err # "nil"
               THEN /\ ConfigReturn(s, None, Some(ConfigDatabaseError))
                    /\ UNCHANGED loc
               ELSE IF r.packs = <<>>
               THEN ConfigAfterPacks(s, EmptyMap)
               ELSE /\ loc' = [loc EXCEPT ![s].packs = r.packs]
                    /\ pc' = [pc EXCEPT ![s] = "ListScheduledQueriesInPack"]
                    /\ UNCHANGED ret
    /\ UNCHANGED <<now, nreq, dsVars, req, overlap>>

\* one iteration of the loop over the packs:
\* svc.ds.ListScheduledQueriesInPack(pack.ID, opts) and the pack added
ConfigListQueries(s) ==
    /\ pc[s] = "ListScheduledQueriesInPack"
    /\ LET pack == Head(loc[s].packs) IN
       \E r \in DsListScheduledQueriesInPack(pack.ID) :
         /\ calls' = [calls EXCEPT ![s] =
               Append(@, Call("ListScheduledQueriesInPack", pack.ID, r.err))]
         /\ IF r.err # "nil"
               THEN /\ ConfigReturn(s, None, Some(ConfigDatabaseError))
                    /\ UNCHANGED loc
               ELSE LET packConfig == MapPut(loc[s].packConfig, pack.Name,
                                             PackContent(pack, r.queries))
                    IN  IF Tail(loc[s].packs) = <<>>
                           THEN ConfigAfterPacks(s, packConfig)
                           ELSE /\ loc' = [loc EXCEPT
                                      ![s].packs = Tail(@),
                                      ![s].packConfig = packConfig]
                                /\ UNCHANGED <<pc, ret>>
    /\ UNCHANGED <<now, nreq, dsVars, req, overlap>>

\* svc.ds.SaveHost(&host) and the return
ConfigSaveHost(s) ==
    /\ pc[s] = "ConfigSaveHost"
    /\ \E e \in {"nil", "error"} :
         /\ calls' = [calls EXCEPT ![s] =
               Append(@, Call("SaveHost", loc[s].host, e))]
         /\ IF e # "nil"
               THEN /\ ConfigReturn(s, None, Some(ConfigSaveHostError))
                    /\ UNCHANGED dsHosts
               ELSE /\ dsHosts' = DsSaveHost(dsHosts, loc[s].host)
                    /\ ConfigReturn(s, Some(loc[s].config), None)
    /\ UNCHANGED <<now, nreq, polVars, orphaned,
                   appConfig, dsLabels, dsCampaigns, dsExecutions,
                   published, req, loc, overlap>>

-----------------------------------------------------------------------------
(* RecordPolicyQueryExecutions (server/datastore/mysql/policies.go) *)

\* the policies of the policies table
PolicyIDs == {3, 5, 7}

\* the orders in which `for policyID := range results` can visit the keys of
\* the map: every order
IterationOrders(results) ==
    LET n == Cardinality(DOMAIN results) IN
    {order \in [1..n -> DOMAIN results] :
        \A i, j \in 1..n : order[i] = order[j] => i = j}

\* the comparison turned around
PolicyLessReversed(a, b) == a > b

\* orderedIDs[i] < orderedIDs[j]
PolicyLess(a, b) == a < b

RECURSIVE InsertSorted(_, _)
InsertSorted(x, sorted) ==
    IF sorted = <<>> \/ PolicyLess(x, Head(sorted))
       THEN <<x>> \o sorted
       ELSE <<Head(sorted)>> \o InsertSorted(x, Tail(sorted))

RECURSIVE InsertAll(_, _)
InsertAll(ids, sorted) ==
    IF ids = <<>> THEN sorted
    ELSE InsertAll(Tail(ids), InsertSorted(Head(ids), sorted))

\* the slice left in the order of the map iteration
SortSliceSkipped(ids) == ids

\* sort.Slice(orderedIDs, less)
SortSlice(ids) == InsertAll(ids, <<>>)

\* the loop that collects vals: one row (updated, policyID, host.ID, matches)
\* for each id of orderedIDs, in order
BindRows(orderedIDs, hostID, results, updated) ==
    [i \in 1..Len(orderedIDs) |->
        [updated_at |-> updated, policy_id |-> orderedIDs[i],
         host_id |-> hostID, passes |-> results[orderedIDs[i]]]]

PolicyInsertError ==
    [type |-> "error", message |-> <<"insert policy_membership ", ErrText>>]

\* the outcomes of the insert statement: a statement without rows is not a
\* statement the database accepts
ExecContextOutcomes(vals) ==
    IF vals = <<>> THEN {"error"} ELSE {"nil", "error"}

\* the call up to the statement: the ids are collected in the order of the
\* map iteration, sorted, and the rows bound
RecordPolicyQueryExecutions(s, hostID, results, updated) ==
    /\ pc[s] = "idle"
    /\ nreq < MaxRequests
    /\ nreq' = nreq + 1
    /\ req' = [req EXCEPT ![s] =
          [op |-> "RecordPolicyQueryExecutions", hostID |-> hostID,
           results |-> results, updated |-> updated]]
    /\ overlap' = BeginOverlap(s)
    /\ calls' = [calls EXCEPT ![s] = <<>>]
    /\ \E iterated \in IterationOrders(results) :
         LET orderedIDs == SortSlice(iterated) IN
         loc' = [loc EXCEPT ![s] =
                   [iterated |-> iterated, orderedIDs |-> orderedIDs,
                    vals |-> BindRows(orderedIDs, hostID, results, updated),
                    locked |-> 0]]
    /\ pc' = [pc EXCEPT ![s] = "ExecContext"]
    /\ ret' = [ret EXCEPT ![s] = <<>>]
    /\ UNCHANGED <<now, dsVars>>

\* the row whose lock the statement of s takes next
NextRow(s) == loc[s].vals[loc[s].locked + 1]

\* ds.writer.ExecContext(ctx, query, vals...): the statement takes the lock of
\* the next row it inserts, waiting while another writer holds it
PolicyExecLock(s) ==
    /\ pc[s] = "ExecContext"
    /\ loc[s].locked < Len(loc[s].vals)
    /\ rowLocks[NextRow(s).policy_id] \in {"free", s}
    /\ rowLocks' = [rowLocks EXCEPT ![NextRow(s).policy_id] = s]
    /\ loc' = [loc EXCEPT ![s].locked = @ + 1]
    /\ UNCHANGED <<now, nreq, appConfig, dsHosts, dsLabels, dsCampaigns,
                   dsExecutions, published, dsPolicyHistory, dsPolicies,
                   dsReader, orphaned, pc, req, ret, calls, overlap>>

\* the statement ends, its locks are released, and the call returns
PolicyExecEnd(s) ==
    /\ pc[s] = "ExecContext"
    /\ loc[s].locked = Len(loc[s].vals)
    /\ \E e \in ExecContextOutcomes(loc[s].vals) :
         /\ calls' = [calls EXCEPT ![s] =
               Append(@, Call("ExecContext", loc[s].vals, e))]
         /\ IF e = "nil"
               THEN /\ dsPolicyHistory' = Append(dsPolicyHistory, loc[s].vals)
                    /\ Return(s, [err |-> None])
               ELSE /\ UNCHANGED dsPolicyHistory
                    /\ Return(s, [err |-> Some(PolicyInsertError)])
    /\ rowLocks' = [p \in PolicyIDs |->
                      IF rowLocks[p] = s THEN "free" ELSE rowLocks[p]]
    /\ UNCHANGED <<now, nreq, appConfig, dsHosts, dsLabels, dsCampaigns,
                   dsExecutions, published, dsPolicies, dsReader, orphaned,
                   req, loc, overlap>>

-----------------------------------------------------------------------------
(* The policies table and its reads and deletes                            *)
(* (server/datastore/mysql/policies.go)                                    *)

\* the queries table: id -> name
dsQueries == (1 :> "query1") @@ (2 :> "query2")

PolicyTeams == {1, 2}

\* the policies table at the start: a global policy and one of each team
InitialPolicies ==
    (3 :> [id |-> 3, query_id |-> 1, team_id |-> None])
    @@ (5 :> [id |-> 5, query_id |-> 1, team_id |-> Some(1)])
    @@ (7 :> [id |-> 7, query_id |-> 2, team_id |-> Some(2)])

\* the rows of policy_membership_history, in the order of their insertion
RECURSIVE HistoryRows(_)
HistoryRows(history) ==
    IF history = <<>> THEN <<>>
    ELSE HistoryRows(SubSeq(history, 1, Len(history) - 1))
         \o history[Len(history)]

\* policy_membership: for each policy and host, the row inserted last
PolicyMembership(history) ==
    LET rows == HistoryRows(history) IN
    {rows[i] : i \in {j \in 1..Len(rows) :
                        \A k \in (j + 1)..Len(rows) :
                            \/ rows[k].policy_id # rows[j].policy_id
                            \/ rows[k].host_id # rows[j].host_id}}

\* select count(*) from policy_membership where policy_id=p.id and passes=?
MembershipCount(history, policyID, passes) ==
    Cardinality({r \in PolicyMembership(history) :
                    r.policy_id = policyID /\ r.passes = Some(passes)})

\* the tables as ds.writer sees them
WriterTables == [policies |-> dsPolicies, history |-> dsPolicyHistory]

\* the tables as ds.reader sees them
ReaderTables == dsReader

\* one row of the select of policyDB and listPoliciesDB: p.*, the name of
\* the query and the two counts
PolicyRow(db, p) ==
    [ID |-> p.id, QueryID |-> p.query_id, TeamID |-> p.team_id,
     QueryName |-> dsQueries[p.query_id],
     PassingHostCount |-> MembershipCount(db.history, p.id, TRUE),
     FailingHostCount |-> MembershipCount(db.history, p.id, FALSE)]

\* FROM policies p JOIN queries q ON (p.query_id=q.id)
JoinedPolicies(db) ==
    {db.policies[id] : id \in {i \in DOMAIN db.policies :
                                  db.policies[i].query_id \in DOMAIN dsQueries}}

\* the team condition left out
PolicyTeamWhereTrue(p, teamID) == TRUE

\* teamWhere of policyDB: TRUE, or team_id = ?
PolicyTeamWhere(p, teamID) == teamID = None \/ p.team_id = teamID

ErrNoRows == "sql: no rows in result set"

PolicyGetError(cause) ==
    [type |-> "wrapped", message |-> <<"getting policy", ": ", cause>>]

PolicyListError ==
    [type |-> "wrapped", message |-> <<"listing policies", ": ", ErrText>>]

PolicyInError ==
    [type |-> "wrapped", message |-> <<"IN for DELETE FROM policies", ": ",
                                       "empty slice passed to 'in' query">>]

PolicyDeleteError ==
    [type |-> "wrapped", message |-> <<"delete policies", ": ", ErrText>>]

\* policyDB(ctx, q, id, teamID) when the select succeeds
policyDB(db, id, teamID) ==
    LET found == {p \in JoinedPolicies(db) :
                     p.id = id /\ PolicyTeamWhere(p, teamID)}
    IN  IF found = {}
           THEN [policy |-> None, err |-> Some(PolicyGetError(ErrNoRows))]
           ELSE [policy |-> Some(PolicyRow(db, CHOOSE p \in found : TRUE)),
                 err |-> None]

\* listPoliciesDB(ctx, q, teamID) when the select succeeds: the rows, which
\* the select leaves unordered
listPoliciesDB(db, teamID) ==
    [policies |->
        {PolicyRow(db, p) : p \in {x \in JoinedPolicies(db) :
                                      IF teamID = None THEN x.team_id = None
                                      ELSE x.team_id = teamID}},
     err |-> None]

\* the elements of a slice
Elements(ids) == {ids[i] : i \in 1..Len(ids)}

\* the team condition left out
DeleteTeamWhereTrue(p, teamID) == TRUE

\* teamWhere of deletePolicyDB: TRUE, or team_id = ?
DeleteTeamWhere(p, teamID) == teamID = None \/ p.team_id = teamID

\* DELETE FROM policies WHERE id IN (?) AND teamWhere
DeletedPolicies(policies, ids, teamID) ==
    [id \in {i \in DOMAIN policies :
                ~(i \in Elements(ids) /\ DeleteTeamWhere(policies[i], teamID))}
        |-> policies[id]]

\* a call of one statement begins
BeginCall(s, r) ==
    /\ pc[s] = "idle"
    /\ nreq < MaxRequests
    /\ nreq' = nreq + 1
    /\ req' = [req EXCEPT ![s] = r]
    /\ overlap' = BeginOverlap(s)
    /\ loc' = [loc EXCEPT ![s] = <<>>]

\* Policy(id) and TeamPolicy(teamID, policyID): policyDB on ds.reader
GetPolicy(s, op, teamID, policyID) ==
    /\ BeginCall(s, [op |-> op, teamID |-> teamID, policyID |-> policyID])
    /\ \E e \in {"nil", "error"} :
         /\ calls' = [calls EXCEPT ![s] =
               <<Call("GetContext", <<policyID, teamID>>, e)>>]
         /\ IF e = "nil"
               THEN Return(s, policyDB(ReaderTables, policyID, teamID))
               ELSE Return(s, [policy |-> None,
                               err |-> Some(PolicyGetError(ErrText))])
    /\ UNCHANGED <<now, dsVars>>

Policy(s, id) == GetPolicy(s, "Policy", None, id)

TeamPolicy(s, teamID, policyID) ==
    GetPolicy(s, "TeamPolicy", Some(teamID), policyID)

\* ListGlobalPolicies() and ListTeamPolicies(teamID): listPoliciesDB on
\* ds.reader
ListPolicies(s, op, teamID) ==
    /\ BeginCall(s, [op |-> op, teamID |-> teamID])
    /\ \E e \in {"nil", "error"} :
         /\ calls' = [calls EXCEPT ![s] = <<Call("SelectContext", teamID, e)>>]
         /\ IF e = "nil"
               THEN Return(s, listPoliciesDB(ReaderTables, teamID))
               ELSE Return(s, [policies |-> {}, err |-> Some(PolicyListError)])
    /\ UNCHANGED <<now, dsVars>>

ListGlobalPolicies(s) == ListPolicies(s, "ListGlobalPolicies", None)

ListTeamPolicies(s, teamID) ==
    ListPolicies(s, "ListTeamPolicies", Some(teamID))

\* DeleteGlobalPolicies(ids) and DeleteTeamPolicies(teamID, ids):
\* deletePolicyDB on ds.writer
DeletePolicies(s, op, teamID, ids) ==
    /\ BeginCall(s, [op |-> op, teamID |-> teamID, ids |-> ids])
    /\ IF ids = <<>>
          THEN /\ calls' = [calls EXCEPT ![s] = <<>>]
               /\ Return(s, [ids |-> None, err |-> Some(PolicyInError)])
               /\ UNCHANGED dsPolicies
          ELSE \E e \in {"nil", "error"} :
                 /\ calls' = [calls EXCEPT ![s] =
                       <<Call("ExecContext", <<ids, teamID>>, e)>>]
                 /\ IF e = "nil"
                       THEN /\ dsPolicies' =
                                  DeletedPolicies(dsPolicies, ids, teamID)
                            /\ Return(s, [ids |-> Some(ids), err |-> None])
                       ELSE /\ UNCHANGED dsPolicies
                            /\ Return(s, [ids |-> None,
                                          err |-> Some(PolicyDeleteError)])
    /\ UNCHANGED <<now, appConfig, dsHosts, dsLabels, dsCampaigns, dsExecutions,
                   published, dsPolicyHistory, rowLocks, dsReader, orphaned>>

DeleteGlobalPolicies(s, ids) ==
    DeletePolicies(s, "DeleteGlobalPolicies", None, ids)

DeleteTeamPolicies(s, teamID, ids) ==
    DeletePolicies(s, "DeleteTeamPolicies", Some(teamID), ids)

\* ds.reader catches up with ds.writer
Replicate ==
    /\ dsReader # WriterTables
    /\ dsReader' = WriterTables
    /\ UNCHANGED <<now, nreq, appConfig, dsHosts, dsLabels, dsCampaigns,
                   dsExecutions, published, dsPolicyHistory, rowLocks,
                   dsPolicies, orphaned, pc, req, loc, ret, calls, overlap>>

-----------------------------------------------------------------------------
(* The caller and the clock *)

\* the request ends; the session serves the next one
EndRequest(s) ==
    /\ pc[s] = "returned"
    /\ pc' = [pc EXCEPT ![s] = "idle"]
    /\ req' = [req EXCEPT ![s] = <<>>]
    /\ loc' = [loc EXCEPT ![s] = <<>>]
    /\ ret' = [ret EXCEPT ![s] = <<>>]
    /\ calls' = [calls EXCEPT ![s] = <<>>]
    /\ overlap' = [overlap EXCEPT ![s] = FALSE]
    /\ UNCHANGED <<now, nreq, dsVars>>

Tick ==
    /\ now < MaxClock
    /\ now' = now + 1
    /\ UNCHANGED <<nreq, dsVars, pc, req, loc, ret, calls, overlap>>

-----------------------------------------------------------------------------
(* Initial state: one enrolled host, last seen at an earlier time *)

Init ==
    /\ now = 1
    /\ nreq = 0
    /\ appConfig = [EnrollSecret |-> "secret"]
    /\ \E seen \in 0..1 :
         dsHosts = [k \in {"k1"} |->
                      [NewHost(1, k, "host1") EXCEPT !.SeenTime = seen]]
    /\ dsLabels = EmptyMap
    /\ dsCampaigns = [id \in DOMAIN dsCampaignQueries |->
                        [ID |-> id, Status |-> QueryRunning]]
    /\ dsExecutions = <<>>
    /\ published = <<>>
    /\ dsPolicyHistory = <<>>
    /\ rowLocks = [p \in PolicyIDs |-> "free"]
    /\ dsPolicies = InitialPolicies
    /\ dsReader = [policies |-> InitialPolicies, history |-> <<>>]
    /\ orphaned = {}
    /\ pc = [s \in Sessions |-> "idle"]
    /\ req = [s \in Sessions |-> <<>>]
    /\ loc = [s \in Sessions |-> <<>>]
    /\ ret = [s \in Sessions |-> <<>>]
    /\ calls = [s \in Sessions |-> <<>>]
    /\ overlap = [s \in Sessions |-> FALSE]

\* concurrent authentications
AuthKeys == {"", "k1", "k9"}

NextAuth ==
    \/ Tick
    \/ \E s \in Sessions, k \in AuthKeys : AuthenticateHost(s, k)
    \/ \E s \in Sessions : AuthMarkHostSeen(s)
    \/ \E s \in Sessions : EndRequest(s)

SpecAuth == Init /\ [][NextAuth]_vars

\* concurrent enrollments
EnrollSecrets == {"secret", "wrong", ""}

HostIdentifiers == {"host1", "host2"}

NextEnroll ==
    \/ \E s \in Sessions, e \in EnrollSecrets, h \in HostIdentifiers :
          EnrollAgent(s, e, h)
    \/ \E s \in Sessions : EnrollAgentEnrollHost(s)
    \/ \E s \in Sessions : EndRequest(s)

SpecEnroll == Init /\ [][NextEnroll]_vars

\* two concurrent writers of policy results, one host and one call each
PolicyHostOf(s) == IF s = "s1" THEN 1 ELSE 2

\* the result a host reports for each policy: failing, passing or none
PolicyResults == (3 :> Some(FALSE)) @@ (5 :> Some(TRUE)) @@ (7 :> None)

\* the result maps of the calls: the results for any of the policies
PolicyResultMaps == {[p \in ids |-> PolicyResults[p]] : ids \in SUBSET PolicyIDs}

NextPolicy ==
    \/ \E s \in Sessions, results \in PolicyResultMaps :
          RecordPolicyQueryExecutions(s, PolicyHostOf(s), results, ClockNow)
    \/ \E s \in Sessions : PolicyExecLock(s)
    \/ \E s \in Sessions : PolicyExecEnd(s)

SpecPolicy == Init /\ [][NextPolicy]_vars

\* every statement that can go on does, and a caller takes its result
SpecPolicyFair ==
    /\ SpecPolicy
    /\ \A s \in Sessions :
          /\ WF_vars(PolicyExecLock(s))
          /\ WF_vars(PolicyExecEnd(s))

-----------------------------------------------------------------------------
(* An administrator and an agent, one call after the other: policy results *)
(* recorded, policies fetched, listed and deleted, while the reader        *)
(* catches up with the writer at any later time                            *)

MaxIDs == 2

\* the ids of the calls: those of the policies and one of no policy
RequestedIDs == PolicyIDs \cup {9}

\* the id lists of the deletes, the empty one among them: up to MaxIDs
\* different ids in any order
IDLists ==
    UNION {{ids \in [1..n -> RequestedIDs] :
               \A i, j \in 1..n : ids[i] = ids[j] => i = j} : n \in 0..MaxIDs}

PolicyHosts == {1, 2}

\* the results reported for the policies: passing, failing, or none
ReportedResultMaps ==
    {3 :> Some(TRUE), (3 :> Some(FALSE)) @@ (5 :> None)}

NextPolicies ==
    \/ \E host \in PolicyHosts, results \in ReportedResultMaps :
          RecordPolicyQueryExecutions("s1", host, results, ClockNow)
    \/ PolicyExecLock("s1")
    \/ PolicyExecEnd("s1")
    \/ Replicate
    \/ \E id \in RequestedIDs : Policy("s1", id)
    \/ \E team \in PolicyTeams, id \in RequestedIDs : TeamPolicy("s1", team, id)
    \/ ListGlobalPolicies("s1")
    \/ \E team \in PolicyTeams : ListTeamPolicies("s1", team)
    \/ \E ids \in IDLists : DeleteGlobalPolicies("s1", ids)
    \/ \E team \in PolicyTeams, ids \in IDLists :
          DeleteTeamPolicies("s1", team, ids)
    \/ EndRequest("s1")

SpecPolicies == Init /\ [][NextPolicies]_vars

-----------------------------------------------------------------------------
(* One request served by one session: an authentication followed by a      *)
(* result submission with the host it returned, or a result submission     *)
(* without an authenticated host.  The submitted names cover the three     *)
(* prefixes, an unparsable suffix and a name with no known prefix; a        *)
(* submission holds at most MaxResults of them.                            *)

NameDetailUptime == hostDetailQueryPrefix \o DetailNameUptime

NameLabel1 == hostLabelQueryPrefix \o <<"1">>

NameLabel2 == hostLabelQueryPrefix \o <<"2">>

NameLabelBad == hostLabelQueryPrefix \o <<"x">>

NameCampaign1 == hostDistributedQueryPrefix \o <<"1">>

NameUnknown == <<"f", "o", "o">>

QueryNames ==
    {NameDetailUptime, NameLabel1, NameLabel2, NameLabelBad, NameCampaign1,
     NameUnknown}

NoRows == <<>>

OneRow(value) == <<[total_seconds |-> value]>>

\* the row sets submitted under a name
RowsOf(query) ==
    IF query = NameDetailUptime
       THEN {OneRow(<<"5">>), OneRow(<<"x">>)}
    ELSE IF query \in {NameLabel1, NameLabel2}
       THEN {NoRows, OneRow(<<"5">>)}
    ELSE {OneRow(<<"5">>)}

Submissions ==
    UNION {{results \in [names -> UNION {RowsOf(q) : q \in names}] :
               \A q \in names : results[q] \in RowsOf(q)} :
           names \in {n \in SUBSET QueryNames : Cardinality(n) <= MaxResults}}

\* the statuses reported with a submission: none, OK or an error, for each
\* distributed query name
StatusMaps(results) ==
    UNION {[names -> {StatusOK, "1"}] :
           names \in SUBSET {q \in DOMAIN results :
                                 HasPrefix(q, hostDistributedQueryPrefix)}}

Next ==
    \/ Tick
    \/ \E k \in AuthKeys : AuthenticateHost("s1", k)
    \/ AuthMarkHostSeen("s1")
    \/ \E results \in Submissions : \E statuses \in StatusMaps(results) :
          SubmitDistributedQueryResults("s1", results, statuses)
    \/ SubmitLoop("s1")
    \/ IngestWriteResult("s1")
    \/ IngestLoadCampaign("s1")
    \/ IngestSaveCampaign("s1")
    \/ IngestNewExecution("s1")
    \/ SubmitAfterLoop("s1")
    \/ SubmitRecordLabels("s1")
    \/ SubmitSaveHost("s1")

Spec == Init /\ [][Next]_vars

-----------------------------------------------------------------------------
(* Successive requests of one agent: authentications, each followed by a   *)
(* dispatch of the due queries or by the submission of one result          *)

NameCampaign12 == hostDistributedQueryPrefix \o <<"1", "2">>

\* the submissions of one result: a detail result, a label result with or
\* without rows, or the result of a campaign
DispatchSubmissions ==
    {NameDetailUptime :> OneRow(<<"5">>), NameLabel1 :> NoRows,
     NameLabel1 :> OneRow(<<"5">>), NameCampaign1 :> OneRow(<<"5">>),
     NameCampaign12 :> OneRow(<<"5">>)}

NextDispatch ==
    \/ Tick
    \/ AuthenticateHost("s1", "k1")
    \/ AuthMarkHostSeen("s1")
    \/ GetDistributedQueries("s1")
    \/ GetLabelQueries("s1")
    \/ GetCampaignQueries("s1")
    \/ \E results \in DispatchSubmissions :
          SubmitDistributedQueryResults("s1", results, EmptyMap)
    \/ SubmitLoop("s1")
    \/ IngestWriteResult("s1")
    \/ IngestLoadCampaign("s1")
    \/ IngestSaveCampaign("s1")
    \/ IngestNewExecution("s1")
    \/ SubmitAfterLoop("s1")
    \/ SubmitRecordLabels("s1")
    \/ SubmitSaveHost("s1")
    \/ EndRequest("s1")

SpecDispatch == Init /\ [][NextDispatch]_vars

-----------------------------------------------------------------------------
(* Claims about SubmitDistributedQueryResults, checked under Spec *)

Returned(s, op) == pc[s] = "returned" /\ req[s].op = op

Failed(s) == ret[s].err # None

FailedNodeInvalid(s) == Failed(s) /\ NodeInvalid(ret[s].err[1])

FailedInternal(s) == Failed(s) /\ ~NodeInvalid(ret[s].err[1])

LastCall(cs) == cs[Len(cs)]

\* the datastore calls that leave a durable effect when they succeed
DurableWrites ==
    {"RecordLabelQueryExecutions", "SaveHost", "NewDistributedQueryExecution",
     "SaveDistributedQueryCampaign"}

HasKnownPrefix(query) ==
    \/ HasPrefix(query, hostDetailQueryPrefix)
    \/ HasPrefix(query, hostLabelQueryPrefix)
    \/ HasPrefix(query, hostDistributedQueryPrefix)

UnknownPrefixMessage == <<"failed to ingest result: ", "unknown query prefix: ">>

WritingResultsMessage == <<"failed to ingest result: ", "writing results: ", ErrText>>

\* a submission, made with an authenticated host, that holds a name with none
\* of the three prefixes has returned
ReturnedWithUnknownName(s) ==
    /\ Returned(s, "SubmitDistributedQueryResults")
    /\ req[s].authenticated
    /\ \E q \in DOMAIN req[s].results : ~HasKnownPrefix(q)

\* C1: whenever SubmitDistributedQueryResults returns an error, no durable
\* effect of the call remains: it recorded no label membership, saved no
\* host, appended no execution record and changed no campaign status.
C1_ErrorLeavesNoEffect ==
    \A s \in Sessions :
        (Returned(s, "SubmitDistributedQueryResults") /\ Failed(s))
            => \A i \in 1..Len(calls[s]) :
                  calls[s][i].op \in DurableWrites => calls[s][i].err # "nil"

\* C2: for every distributed query result with a parsable campaign id (every
\* result that reached the publish), once its ingestion has ended an
\* execution record for its campaign has been appended, whatever the publish
\* returned, as long as no datastore call failed.
C2_ExecutionAlwaysRecorded ==
    \A s \in Sessions :
        (pc[s] = "loop" \/ Returned(s, "SubmitDistributedQueryResults"))
            => \A i \in 1..Len(calls[s]) :
                  (/\ calls[s][i].op = "WriteResult"
                   /\ \A j \in 1..Len(calls[s]) :
                         calls[s][j].op # "WriteResult" => calls[s][j].err = "nil")
                  => \E j \in (i + 1)..Len(calls[s]) :
                        /\ calls[s][j].op = "NewDistributedQueryExecution"
                        /\ calls[s][j].err = "nil"
                        /\ calls[s][j].arg.DistributedQueryCampaignID =
                              calls[s][i].arg.DistributedQueryCampaignID

\* C3: in ingestDistributedQuery, a publish that reports NoSubscriber returns
\* no error: the campaign is loaded, and when the load succeeds it is saved
\* with status complete, and when the save succeeds the stored status is
\* complete and the ingestion goes on; a publish that fails with any other
\* error returns the writing-results error and leaves every campaign as it was.
C3_PublishOutcomeClassified ==
    [][\A s \in Sessions :
        /\ (pc[s] = "WriteResult" /\ pc'[s] # pc[s]) =>
             LET c == LastCall(calls'[s]) IN
             /\ c.op = "WriteResult"
             /\ c.err = "NoSubscriber" =>
                   /\ pc'[s] = "DistributedQueryCampaign"
                   /\ dsCampaigns' = dsCampaigns
             /\ c.err \in {"pubsubError", "error"} =>
                   /\ pc'[s] = "returned"
                   /\ ret'[s].err # None
                   /\ ret'[s].err[1].message = WritingResultsMessage
                   /\ dsCampaigns' = dsCampaigns
             /\ c.err = "nil" =>
                   /\ pc'[s] = "NewDistributedQueryExecution"
                   /\ dsCampaigns' = dsCampaigns
        /\ (pc[s] = "DistributedQueryCampaign" /\ pc'[s] # pc[s]) =>
             LET c == LastCall(calls'[s]) IN
             /\ c.op = "DistributedQueryCampaign"
             /\ c.arg = loc[s].res[1].DistributedQueryCampaignID
             /\ c.err = "nil" =>
                   /\ pc'[s] = "SaveDistributedQueryCampaign"
                   /\ loc'[s].campaign =
                        Some([dsCampaigns[c.arg] EXCEPT !.Status = QueryComplete])
        /\ (pc[s] = "SaveDistributedQueryCampaign" /\ pc'[s] # pc[s]) =>
             LET c == LastCall(calls'[s]) IN
             /\ c.op = "SaveDistributedQueryCampaign"
             /\ c.arg = loc[s].campaign[1]
             /\ c.arg.ID = loc[s].res[1].DistributedQueryCampaignID
             /\ c.err = "nil" =>
                   /\ pc'[s] = "NewDistributedQueryExecution"
                   /\ dsCampaigns'[c.arg.ID].Status = QueryComplete
      ]_vars

\* an orphaned campaign closed by a submission that succeeded
C3_Witness ==
    \E s \in Sessions :
        /\ Returned(s, "SubmitDistributedQueryResults")
        /\ ~Failed(s)
        /\ Len(calls[s]) >= 3
        /\ calls[s][1].op = "WriteResult"
        /\ calls[s][1].err = "NoSubscriber"
        /\ calls[s][3].op = "SaveDistributedQueryCampaign"
        /\ dsCampaigns[1].Status = QueryComplete

\* C4 as stated: a submission that holds a name with none of the three
\* prefixes fails with the unknown-query error, and SaveHost and
\* RecordLabelQueryExecutions are never called.
C4_UnknownPrefixError ==
    \A s \in Sessions :
        ReturnedWithUnknownName(s)
            => /\ Failed(s)
               /\ ret[s].err[1].message = UnknownPrefixMessage
               /\ ~Called(s, "SaveHost")
               /\ ~Called(s, "RecordLabelQueryExecutions")

\* C4 amended: a submission that holds a name with none of the three
\* prefixes fails, and SaveHost and RecordLabelQueryExecutions are never
\* called, in every processing order; the error is the unknown-query error
\* exactly when the unprefixed name is the result at which the call stopped,
\* and otherwise the error of a result processed before it.
C4_UnknownPrefixRejected ==
    \A s \in Sessions :
        ReturnedWithUnknownName(s)
            => /\ Failed(s)
               /\ ret[s].err[1].message[1] = "failed to ingest result: "
               /\ ret[s].err[1].message = UnknownPrefixMessage
                     <=> ~HasKnownPrefix(loc[s].query)
               /\ ~Called(s, "SaveHost")
               /\ ~Called(s, "RecordLabelQueryExecutions")

\* two results, the unprefixed one processed last and rejected
C4_Witness ==
    \E s \in Sessions :
        /\ ReturnedWithUnknownName(s)
        /\ Cardinality(DOMAIN req[s].results) = 2
        /\ DOMAIN loc[s].remaining = {}
        /\ ret[s].err[1].message = UnknownPrefixMessage

-----------------------------------------------------------------------------
(* Claims about AuthenticateHost, checked under SpecAuth *)

\* C5: AuthenticateHost called with an empty node key fails with a
\* node-invalid error, returns no host and makes no datastore call: neither
\* the credential lookup nor MarkHostSeen runs.
C5_EmptyNodeKeyRejected ==
    \A s \in Sessions :
        (Returned(s, "AuthenticateHost") /\ req[s].nodeKey = "")
            => /\ FailedNodeInvalid(s)
               /\ ret[s].host = None
               /\ calls[s] = <<>>

\* an authentication with the empty key has returned
C5_Witness ==
    \E s \in Sessions :
        /\ Returned(s, "AuthenticateHost")
        /\ req[s].nodeKey = ""
        /\ Failed(s)

\* C6: with a non-empty node key, AuthenticateHost returns a node-invalid
\* error exactly when the credential lookup reports not-found, and an error
\* that is not node-invalid for every other lookup failure; after a failed
\* lookup no host is returned and MarkHostSeen is not called.
C6_LookupFailureClassified ==
    \A s \in Sessions :
        (Returned(s, "AuthenticateHost") /\ req[s].nodeKey # "")
            => LET lookup == calls[s][1] IN
               /\ lookup.op = "AuthenticateHost"
               /\ lookup.arg = req[s].nodeKey
               /\ FailedNodeInvalid(s) <=> lookup.err = "NotFoundError"
               /\ lookup.err = "error" => FailedInternal(s)
               /\ lookup.err # "nil" =>
                     /\ ret[s].host = None
                     /\ ~Called(s, "MarkHostSeen")

\* one lookup reported not-found and another failed otherwise
C6_Witness ==
    \E s, u \in Sessions :
        /\ Returned(s, "AuthenticateHost") /\ req[s].nodeKey # ""
        /\ Returned(u, "AuthenticateHost") /\ req[u].nodeKey # ""
        /\ calls[s][1].err = "NotFoundError"
        /\ calls[u][1].err = "error"

\* C7: an AuthenticateHost call returns a host only after a successful
\* MarkHostSeen for that host with the time it read from the clock, which
\* becomes the stored seen-time; if MarkHostSeen fails the call returns no
\* host and an error that is not node-invalid, and stores nothing.
C7_SeenMarkedBeforeReturn ==
    [][\A s \in Sessions :
        /\ (pc[s] = "idle" /\ pc'[s] = "MarkHostSeen") => loc'[s].t = now
        /\ (pc[s] # "returned" /\ pc'[s] = "returned"
              /\ req'[s].op = "AuthenticateHost" /\ ret'[s].host # None)
             => pc[s] = "MarkHostSeen"
        /\ (pc[s] = "MarkHostSeen" /\ pc'[s] = "returned")
             => LET c == calls'[s][Len(calls'[s])] IN
                /\ c.op = "MarkHostSeen"
                /\ c.arg = <<loc[s].host.NodeKey, loc[s].t>>
                /\ c.err = "nil" =>
                      /\ ret'[s] = [host |-> Some(loc[s].host), err |-> None]
                      /\ dsHosts'[loc[s].host.NodeKey].SeenTime = loc[s].t
                /\ c.err # "nil" =>
                      /\ ret'[s].host = None
                      /\ ret'[s].err # None
                      /\ ~NodeInvalid(ret'[s].err[1])
                      /\ dsHosts' = dsHosts
      ]_vars

\* one authentication returned its host, marked seen at a later time than
\* the initial one, and another failed to mark its host seen
C7_Witness ==
    \E s, u \in Sessions :
        /\ Returned(s, "AuthenticateHost") /\ ret[s].host # None
        /\ dsHosts[req[s].nodeKey].SeenTime = calls[s][2].arg[2]
        /\ calls[s][2].arg[2] > 1
        /\ Returned(u, "AuthenticateHost") /\ Called(u, "MarkHostSeen")
        /\ FailedInternal(u)

\* C8 as stated: over any successful authentications of the same agent,
\* concurrent sessions included, the stored seen-time never decreases.
C8_SeenTimeNeverDecreases ==
    [][\A k \in DOMAIN dsHosts :
          dsHosts'[k].SeenTime >= dsHosts[k].SeenTime]_vars

\* C8 amended: an authentication that overlaps no other call writes the
\* time it read from the clock as seen-time and does not decrease the stored
\* seen-time, which never lies after the current time.
C8_SeenTimeMonotoneSequential ==
    [][/\ \A k \in DOMAIN dsHosts : dsHosts[k].SeenTime <= now
       /\ \A s \in Sessions :
            (pc[s] = "MarkHostSeen" /\ pc'[s] = "returned"
               /\ ret'[s].host # None /\ ~overlap[s])
            => \A k \in DOMAIN dsHosts :
                  /\ dsHosts'[k].SeenTime >= dsHosts[k].SeenTime
                  /\ k = loc[s].host.NodeKey => dsHosts'[k].SeenTime = loc[s].t
      ]_vars

\* an authentication that overlapped no other call moved the seen-time that
\* an earlier request had left
C8_Witness ==
    \E s \in Sessions :
        /\ Returned(s, "AuthenticateHost")
        /\ ret[s].host # None
        /\ ~overlap[s]
        /\ nreq >= 2
        /\ ret[s].host[1].SeenTime > 1
        /\ dsHosts[req[s].nodeKey].SeenTime > ret[s].host[1].SeenTime

-----------------------------------------------------------------------------
(* Claims about EnrollAgent, checked under SpecEnroll *)

\* C9: EnrollAgent with an enroll secret different from the configured one
\* returns a node-invalid error and never calls EnrollHost; with a matching
\* secret it calls EnrollHost exactly once, with the host identifier and the
\* configured node key size, and when that call succeeds returns the node
\* key of the host it created.
C9_EnrollSecretChecked ==
    \A s \in Sessions :
        Returned(s, "EnrollAgent") =>
            /\ req[s].enrollSecret # appConfig.EnrollSecret =>
                  /\ FailedNodeInvalid(s)
                  /\ ret[s].nodeKey = ""
                  /\ ~Called(s, "EnrollHost")
            /\ (req[s].enrollSecret = appConfig.EnrollSecret
                  /\ calls[s][1].err = "nil") =>
                  /\ Len(calls[s]) = 2
                  /\ calls[s][2].op = "EnrollHost"
                  /\ calls[s][2].arg =
                        <<req[s].hostIdentifier, svcConfig.Osquery.NodeKeySize>>
                  /\ calls[s][2].err = "nil" =>
                        /\ ~Failed(s)
                        /\ ret[s].nodeKey = loc[s].host.NodeKey
                        /\ ret[s].nodeKey # ""
                        /\ dsHosts[ret[s].nodeKey] = loc[s].host
                        /\ loc[s].host.OsqueryHostID = req[s].hostIdentifier

\* one enrollment was refused for its secret and another created a host
C9_Witness ==
    \E s, u \in Sessions :
        /\ Returned(s, "EnrollAgent")
        /\ req[s].enrollSecret # appConfig.EnrollSecret
        /\ calls[s][1].err = "nil"
        /\ Returned(u, "EnrollAgent")
        /\ req[u].enrollSecret = appConfig.EnrollSecret
        /\ ~Failed(u)
        /\ ret[u].nodeKey \in DOMAIN dsHosts

\* C10: a storage fault during EnrollAgent (AppConfig or EnrollHost failing)
\* surfaces as an error that is not flagged node-invalid.
C10_EnrollStorageFaultInternal ==
    \A s \in Sessions :
        (Returned(s, "EnrollAgent")
           /\ \E i \in 1..Len(calls[s]) : calls[s][i].err # "nil")
            => FailedInternal(s)

-----------------------------------------------------------------------------
(* Claims about RecordPolicyQueryExecutions, checked under SpecPolicy *)

PolicyIDsOf(rows) == [i \in 1..Len(rows) |-> rows[i].policy_id]

\* a statement of s has its rows bound
PolicyBound(s) ==
    /\ pc[s] \in {"ExecContext", "returned"}
    /\ req[s].op = "RecordPolicyQueryExecutions"

\* C11: the policy ids of the rows RecordPolicyQueryExecutions binds are the
\* keys of the result map, each exactly once, in strictly ascending order,
\* whatever the order of the map iteration.
C11_RowsBoundAscending ==
    \A s \in Sessions :
        PolicyBound(s) =>
            LET ids == PolicyIDsOf(loc[s].vals) IN
            /\ Len(ids) = Cardinality(DOMAIN req[s].results)
            /\ {ids[i] : i \in 1..Len(ids)} = DOMAIN req[s].results
            /\ \A i \in 1..(Len(ids) - 1) : ids[i] < ids[i + 1]

\* the map {7, 3, 5} iterated in the order 7, 3, 5 and bound as 3, 5, 7
C11_Witness ==
    \E s \in Sessions :
        /\ PolicyBound(s)
        /\ loc[s].iterated = <<7, 3, 5>>
        /\ PolicyIDsOf(loc[s].vals) = <<3, 5, 7>>

\* writer s waits for a row lock that writer u holds
WaitsFor(s, u) ==
    /\ s # u
    /\ pc[s] = "ExecContext"
    /\ req[s].op = "RecordPolicyQueryExecutions"
    /\ loc[s].locked < Len(loc[s].vals)
    /\ rowLocks[NextRow(s).policy_id] = u

\* a set of writers each waiting for a lock another of them holds
WaitCycle ==
    \E c \in SUBSET Sessions :
        /\ c # {}
        /\ \A s \in c : \E u \in c : WaitsFor(s, u)

\* C12: with concurrent writers over overlapping policy ids, each taking its
\* row locks one at a time in the order its rows are bound, no reachable
\* state holds a cycle of writers waiting for each other, and every writer
\* that has begun its statement eventually returns.
C12_NoDeadlockAndCompletion ==
    /\ [] ~WaitCycle
    /\ \A s \in Sessions :
          (pc[s] = "ExecContext") ~> (pc[s] = "returned")

\* one writer waits for a lock the other holds, over maps whose iteration
\* orders were opposite
C12_Witness ==
    /\ WaitsFor("s1", "s2")
    /\ loc["s2"].locked >= 1
    /\ loc["s1"].iterated = <<7, 3>>
    /\ loc["s2"].iterated = <<3, 7>>

-----------------------------------------------------------------------------
(* Claims about label results and the host save, checked under Spec *)

\* the label each submitted label name denotes
LabelIDOf == (NameLabel1 :> 1) @@ (NameLabel2 :> 2)

\* the names of a submission that carry a given prefix
NamesWithPrefix(results, prefix) ==
    {q \in DOMAIN results : HasPrefix(q, prefix)}

\* the memberships a submission reports: label -> one or more rows returned
ReportedMemberships(results) ==
    LET names == DOMAIN results \cap DOMAIN LabelIDOf IN
    [l \in {LabelIDOf[q] : q \in names} |->
        \E q \in names : LabelIDOf[q] = l /\ results[q] # <<>>]

\* the calls of s to a datastore or pub/sub operation
CallsTo(s, op) == {i \in 1..Len(calls[s]) : calls[s][i].op = op}

Submitted(s) ==
    /\ req[s] # <<>>
    /\ req[s].op = "SubmitDistributedQueryResults"
    /\ req[s].authenticated

Succeeded(s) ==
    Returned(s, "SubmitDistributedQueryResults") /\ ~Failed(s)

\* C13: every label result of a submission is in the batch handed to the
\* datastore, as false when it returned no row and as true when it returned
\* one or more; when the submission succeeds that membership is the stored
\* one, a negative result included.
C13_LabelMembershipRecorded ==
    \A s \in Sessions :
        Submitted(s) =>
            /\ \A i \in CallsTo(s, "RecordLabelQueryExecutions") :
                  calls[s][i].arg[2] = ReportedMemberships(req[s].results)
            /\ Succeeded(s) =>
                  \A l \in DOMAIN ReportedMemberships(req[s].results) :
                     /\ <<1, l>> \in DOMAIN dsLabels
                     /\ dsLabels[<<1, l>>].Matches =
                           ReportedMemberships(req[s].results)[l]

\* a submission with a label that returned no row and one that returned a
\* row succeeded, and both memberships are stored
C13_Witness ==
    \E s \in Sessions :
        /\ Succeeded(s)
        /\ DOMAIN req[s].results = {NameLabel1, NameLabel2}
        /\ req[s].results[NameLabel1] = NoRows
        /\ req[s].results[NameLabel2] # NoRows
        /\ ~dsLabels[<<1, 1>>].Matches
        /\ dsLabels[<<1, 2>>].Matches

\* C14: a submission calls RecordLabelQueryExecutions at most once, with all
\* its label results and the time read from the clock right before the call,
\* only once no result is left to ingest and none has failed, and not at all
\* when it holds no label result.
C14_SingleLabelBatch ==
    [][\A s \in Sessions :
        /\ (pc[s] # "RecordLabelQueryExecutions"
              /\ pc'[s] = "RecordLabelQueryExecutions") =>
              /\ loc'[s].t = now
              /\ DOMAIN loc[s].remaining = {}
              /\ ret[s] = <<>>
              /\ CallsTo(s, "RecordLabelQueryExecutions") = {}
        /\ (pc[s] = "RecordLabelQueryExecutions" /\ pc'[s] # pc[s]) =>
              LET c == LastCall(calls'[s]) IN
              /\ c.op = "RecordLabelQueryExecutions"
              /\ c.arg = <<loc[s].host.ID,
                           ReportedMemberships(req[s].results), loc[s].t>>
              /\ ReportedMemberships(req[s].results) # EmptyMap
              /\ Len(calls'[s]) = Len(calls[s]) + 1
        /\ (pc[s] # "RecordLabelQueryExecutions") =>
              \A i \in 1..Len(calls'[s]) :
                 calls'[s][i].op = "RecordLabelQueryExecutions" =>
                    i <= Len(calls[s]) /\ calls[s][i] = calls'[s][i]
      ]_vars

\* a submission of two label results succeeded with one label write
C14_Witness ==
    \E s \in Sessions :
        /\ Succeeded(s)
        /\ Cardinality(NamesWithPrefix(req[s].results, hostLabelQueryPrefix)) = 2
        /\ Cardinality(CallsTo(s, "RecordLabelQueryExecutions")) = 1

\* C19: in a submission that succeeds SaveHost is called once when the
\* submission holds a detail or a label result, and not called otherwise.
C19_SaveHostOnceWhenNeeded ==
    \A s \in Sessions :
        Succeeded(s) =>
            Cardinality(CallsTo(s, "SaveHost")) =
               IF \/ NamesWithPrefix(req[s].results, hostDetailQueryPrefix) # {}
                  \/ NamesWithPrefix(req[s].results, hostLabelQueryPrefix) # {}
                  THEN 1 ELSE 0

\* a submission of a label result alone saved the host
C19_Witness ==
    \E s \in Sessions :
        /\ Succeeded(s)
        /\ DOMAIN req[s].results = {NameLabel1}
        /\ Cardinality(CallsTo(s, "SaveHost")) = 1

\* the status reported for a name is one and is not OK
ReportedFailed(s, query) ==
    /\ query \in DOMAIN req[s].statuses
    /\ req[s].statuses[query] # "0"

\* C20: the envelope published for a distributed query result carries the
\* failure marker exactly when a status was reported for its name and is not
\* OK, and the status of its execution record is failed in those cases and
\* succeeded in all others.
C20_FailureMarkerFromStatus ==
    \A s \in Sessions :
        Submitted(s) =>
            /\ \A i \in CallsTo(s, "WriteResult") :
                  /\ calls[s][i].arg.DistributedQueryCampaignID = 1
                  /\ calls[s][i].arg.Error # None
                        <=> ReportedFailed(s, NameCampaign1)
            /\ \A i \in CallsTo(s, "NewDistributedQueryExecution") :
                  calls[s][i].arg.Status =
                     IF ReportedFailed(s, NameCampaign1)
                        THEN "failed" ELSE "succeeded"

\* an execution was recorded for a result reported without a status
C20_Witness ==
    \E s \in Sessions :
        /\ Succeeded(s)
        /\ NameCampaign1 \in DOMAIN req[s].results
        /\ req[s].statuses = EmptyMap
        /\ dsExecutions # <<>>
        /\ dsExecutions[1].Status = "succeeded"

-----------------------------------------------------------------------------
(* Claims about GetDistributedQueries, checked under SpecDispatch *)

\* a dispatch made with an authenticated host
Dispatching(s) ==
    /\ req[s] # <<>>
    /\ req[s].op = "GetDistributedQueries"
    /\ req[s].authenticated

Dispatched(s) ==
    Returned(s, "GetDistributedQueries") /\ ~Failed(s)

\* the prefix tests of the submission that a name passes
MatchedPrefixes(query) ==
    {prefix \in {hostDetailQueryPrefix, hostLabelQueryPrefix,
                 hostDistributedQueryPrefix} : HasPrefix(query, prefix)}

\* the label each name reported by the datastore denotes
LabelOfName == (<<"1">> :> 1) @@ (<<"2">> :> 2)

\* the name each label and each campaign is dispatched under
LabelNameOf == (<<"1">> :> NameLabel1) @@ (<<"2">> :> NameLabel2)

CampaignNameOf == (1 :> NameCampaign1) @@ (12 :> NameCampaign12)

\* C15: every name GetDistributedQueries returns passes exactly one of the
\* three prefix tests of the submission, the one of the category that
\* produced it: a detail name is one of the registry, the label handler
\* parses a label name back to the label it was built from, and the
\* distributed handler parses a campaign name back to its campaign id; no two
\* queries share a name.
C15_NamesRouteBack ==
    \A s \in Sessions :
        Dispatched(s) =>
            LET queries == ret[s].queries[1]
                host == loc[s].host
            IN
            /\ \A q \in DOMAIN queries : Cardinality(MatchedPrefixes(q)) = 1
            /\ Cardinality(DOMAIN queries) =
                  Cardinality(DOMAIN loc[s].detailQueries)
                  + Cardinality(DOMAIN loc[s].labelQueries)
                  + Cardinality(DOMAIN loc[s].distributedQueries)
            /\ \A q \in DOMAIN loc[s].detailQueries :
                  /\ q \in DOMAIN queries
                  /\ MatchedPrefixes(q) = {hostDetailQueryPrefix}
                  /\ ingestDetailQuery(host, q, <<>>).err = None
            /\ \A name \in DOMAIN loc[s].labelQueries :
                  \E q \in DOMAIN queries :
                     /\ MatchedPrefixes(q) = {hostLabelQueryPrefix}
                     /\ ingestLabelQuery(host, q, <<>>, EmptyMap) =
                           [err |-> None,
                            results |-> (LabelOfName[name] :> FALSE)]
            /\ \A c \in DOMAIN loc[s].distributedQueries :
                  \E q \in DOMAIN queries :
                     LET r == DistributedQueryResult(host, q, <<>>, FALSE) IN
                     /\ MatchedPrefixes(q) = {hostDistributedQueryPrefix}
                     /\ r.err = None
                     /\ r.res[1].DistributedQueryCampaignID = c

\* a dispatch returned detail queries, both labels and both campaigns
C15_Witness ==
    \E s \in Sessions :
        /\ Dispatched(s)
        /\ loc[s].detailQueries # EmptyMap
        /\ DOMAIN loc[s].labelQueries = {<<"1">>, <<"2">>}
        /\ DOMAIN loc[s].distributedQueries = {1, 12}

\* every registry query under the detail prefix
AllDetailQueries ==
    [q \in {hostDetailQueryPrefix \o name : name \in detailQueryNames} |->
        DetailQuery[TrimPrefix(q, hostDetailQueryPrefix)]]

\* C16 as stated: hostDetailQueries returns every registry query when the
\* detail-refresh time is older than the clock time minus one hour, and no
\* query otherwise.
C16_DetailDueWhenOlder ==
    \A s \in Sessions :
        Dispatching(s) =>
            loc[s].detailQueries =
               IF loc[s].host.DetailUpdateTime < loc[s].t - 1
                  THEN AllDetailQueries ELSE EmptyMap

\* C16 amended: hostDetailQueries returns every registry query when the
\* detail-refresh time is not after the clock time minus one hour (older, or
\* exactly one hour old), and no query when it is after; never a proper
\* non-empty subset.
C16_DetailDueUnlessAfterCutoff ==
    \A s \in Sessions :
        Dispatching(s) =>
            /\ loc[s].detailQueries =
                  IF loc[s].host.DetailUpdateTime <= loc[s].t - 1
                     THEN AllDetailQueries ELSE EmptyMap
            /\ Cardinality(DOMAIN AllDetailQueries) = 6

\* a host whose details are exactly one hour old is given every detail query
C16_Witness ==
    \E s \in Sessions :
        /\ Dispatching(s)
        /\ loc[s].host.DetailUpdateTime = loc[s].t - 1
        /\ loc[s].detailQueries = AllDetailQueries

\* C17: a dispatch that succeeds returns the due detail queries, the label
\* queries the datastore reported for the cutoff of the clock time minus the
\* label update interval, and the campaigns the datastore reported, each
\* under its own prefix with its query text, and nothing else; when either
\* lookup fails it returns an error that is not node-invalid and no query set.
C17_DispatchIsUnion ==
    \A s \in Sessions :
        (Returned(s, "GetDistributedQueries") /\ req[s].authenticated) =>
            IF \E i \in 1..Len(calls[s]) : calls[s][i].err # "nil"
               THEN /\ ret[s].queries = None
                    /\ FailedInternal(s)
               ELSE LET queries == ret[s].queries[1] IN
                    /\ ~Failed(s)
                    /\ calls[s][1].op = "LabelQueriesForHost"
                    /\ calls[s][1].arg = <<loc[s].host.ID, loc[s].t - 1>>
                    /\ calls[s][2].op = "DistributedQueriesForHost"
                    /\ DOMAIN queries =
                          DOMAIN loc[s].detailQueries
                          \cup {LabelNameOf[n] : n \in DOMAIN loc[s].labelQueries}
                          \cup {CampaignNameOf[c] :
                                   c \in DOMAIN loc[s].distributedQueries}
                    /\ \A q \in DOMAIN loc[s].detailQueries :
                          queries[q] = loc[s].detailQueries[q]
                    /\ \A n \in DOMAIN loc[s].labelQueries :
                          queries[LabelNameOf[n]] = loc[s].labelQueries[n]
                    /\ \A c \in DOMAIN loc[s].distributedQueries :
                          queries[CampaignNameOf[c]] =
                             loc[s].distributedQueries[c]

\* a dispatch returned queries of the three categories, and the label of a
\* recent evaluation was not among them
C17_Witness ==
    \E s \in Sessions :
        /\ Dispatched(s)
        /\ loc[s].detailQueries # EmptyMap
        /\ DOMAIN loc[s].labelQueries = {<<"2">>}
        /\ DOMAIN loc[s].distributedQueries # {}
        /\ Cardinality(DOMAIN ret[s].queries[1]) >= 8

\* C18: a dispatch never returns a campaign that a submission has saved as
\* closed after a NoSubscriber publish, and every change of a stored campaign
\* status is a change to complete, so that a complete campaign stays complete.
C18_ClosedCampaignStaysClosed ==
    [][/\ \A s \in Sessions :
            (pc[s] = "DistributedQueriesForHost" /\ pc'[s] = "returned"
               /\ ret'[s].err = None)
            => \A c \in orphaned :
                  CampaignNameOf[c] \notin DOMAIN ret'[s].queries[1]
       /\ \A c \in DOMAIN dsCampaigns :
            /\ c \in DOMAIN dsCampaigns'
            /\ dsCampaigns'[c].Status # dsCampaigns[c].Status
                  => dsCampaigns'[c].Status = "complete"
      ]_vars

\* after campaign 1 was closed as orphaned a dispatch returned campaign 12
\* and not campaign 1
C18_Witness ==
    \E s \in Sessions :
        /\ Dispatched(s)
        /\ orphaned = {1}
        /\ dsCampaigns[1].Status = "complete"
        /\ NameCampaign12 \in DOMAIN ret[s].queries[1]
        /\ NameCampaign1 \notin DOMAIN ret[s].queries[1]

-----------------------------------------------------------------------------
(* The detail ingestion functions applied to reported rows: a submission   *)
(* handler's call of ingestDetailQuery on a host and the rows of one       *)
(* result, and the same call made once more on the host it left.  The rows *)
(* cover, for every numeric column, a value that does not parse, the empty *)
(* value and a number; results hold up to MaxRows rows.                    *)

MaxRows == 2

Unparsable == <<"x">>

NumericValues == {<<>>, <<"7">>, <<"1", "2", "3", "4", "5">>, Unparsable}

UptimeRows == {[total_seconds |-> v] : v \in NumericValues}

OsqueryInfoRows == {[version |-> <<"2", ".", "1">>], [version |-> <<"3">>]}

OSVersionRows ==
    {[name |-> <<"C", "e", "n", "t", "O", "S">>, major |-> <<"6">>,
      minor |-> <<>>, patch |-> <<>>, platform |-> <<>>,
      platform_like |-> <<"r">>, code_name |-> <<>>],
     [name |-> <<"U">>, major |-> <<"1">>, minor |-> <<"4">>,
      patch |-> <<"2">>, build |-> <<"b">>, platform |-> <<"u">>,
      platform_like |-> <<"d">>, code_name |-> <<"x">>]}

SystemInfoNumericColumns ==
    {"physical_memory", "cpu_physical_cores", "cpu_logical_cores"}

SystemInfoColumns ==
    SystemInfoNumericColumns \cup
    {"hostname", "uuid", "cpu_type", "cpu_subtype", "cpu_brand",
     "hardware_vendor", "hardware_model", "hardware_version",
     "hardware_serial", "computer_name"}

\* a system_info row whose numeric columns hold value, but for the column bad
SystemInfoRow(value, bad) ==
    [c \in SystemInfoColumns |->
        IF c = bad THEN Unparsable
        ELSE IF c \in SystemInfoNumericColumns THEN value
        ELSE <<"h">>]

SystemInfoRows ==
    {SystemInfoRow(<<"1", "2", "3", "4", "5">>, "none"),
     SystemInfoRow(<<>>, "none")}
    \cup {SystemInfoRow(<<"7">>, bad) : bad \in SystemInfoNumericColumns}

\* the columns of network_interface whose parse error is returned
NicCheckedColumns == {"last_change", "metric", "mtu", "type"}

\* the traffic counters of network_interface
NicCounterColumns ==
    {"ibytes", "ierrors", "ipackets", "obytes", "oerrors", "opackets"}

NicColumns ==
    NicCheckedColumns \cup NicCounterColumns \cup
    {"mac", "address", "broadcast", "interface", "mask", "point_to_point"}

\* a network_interface row whose numeric columns hold 7, but for the columns
\* bad
NicRow(bad) ==
    [c \in NicColumns |->
        IF c \in bad THEN Unparsable
        ELSE IF c \in NicCheckedColumns \cup NicCounterColumns THEN <<"7">>
        ELSE <<"a">>]

\* a row without the optional last_change and with empty numeric columns
NicRowWithoutLastChange ==
    [c \in NicColumns \ {"last_change"} |->
        IF c \in NicCheckedColumns \cup NicCounterColumns THEN <<>>
        ELSE <<"b">>]

NetworkInterfaceRows ==
    {NicRow({}), NicRow(NicCounterColumns), NicRowWithoutLastChange}
    \cup {NicRow({bad}) : bad \in NicCheckedColumns}

FlagVerbose == <<"v", "e", "r", "b", "o", "s", "e">>

\* the intervals the flag rows report, as text and as numbers
ReportedInterval ==
    (<<>> :> 0) @@ (<<"0">> :> 0) @@ (<<"5">> :> 5) @@ (<<"7">> :> 7)

FlagRows ==
    {[name |-> FlagConfigTLSRefresh, value |-> v] :
        v \in {<<>>, <<"0">>, <<"5">>, Unparsable}}
    \cup {[name |-> FlagConfigRefresh, value |-> v] : v \in {<<"0">>, <<"7">>}}
    \cup {[name |-> FlagDistributedInterval, value |-> <<"5">>],
          [name |-> FlagLoggerTLSPeriod, value |-> Unparsable],
          [name |-> FlagVerbose, value |-> Unparsable]}

DetailNameUnknown == <<"f", "o", "o">>

IngestNames == detailQueryNames \cup {DetailNameUnknown}

\* the rows an agent reports for a detail query
DetailRows(name) ==
    CASE name = DetailNameNetworkInterface -> NetworkInterfaceRows
      [] name = DetailNameOSVersion -> OSVersionRows
      [] name = DetailNameOsqueryFlags -> FlagRows
      [] name = DetailNameOsqueryInfo -> OsqueryInfoRows
      [] name = DetailNameSystemInfo -> SystemInfoRows
      [] OTHER -> UptimeRows

RowSets(name) == UNION {[1..n -> DetailRows(name)] : n \in 0..MaxRows}

\* a host whose detail fields were all ingested before
KnownHost ==
    [NewHost(1, "k1", "host1") EXCEPT
        !.DetailUpdateTime = 0,
        !.NetworkInterfaces = <<NetworkInterface(NicRow({})).nic>>,
        !.OSVersion = <<"o">>, !.Build = <<"o">>, !.Platform = <<"o">>,
        !.PlatformLike = <<"o">>, !.CodeName = <<"o">>,
        !.DistributedInterval = 9, !.ConfigTLSRefresh = 9,
        !.LoggerTLSPeriod = 9, !.OsqueryVersion = <<"o">>,
        !.PhysicalMemory = 9, !.HostName = <<"o">>, !.UUID = <<"o">>,
        !.CPUType = <<"o">>, !.CPUSubtype = <<"o">>, !.CPUBrand = <<"o">>,
        !.CPUPhysicalCores = 9, !.CPULogicalCores = 9,
        !.HardwareVendor = <<"o">>, !.HardwareModel = <<"o">>,
        !.HardwareVersion = <<"o">>, !.HardwareSerial = <<"o">>,
        !.ComputerName = <<"o">>, !.Uptime = 9]

\* the hosts the rows are ingested into: a newly enrolled one and a known one
IngestHosts == {NewHost(1, "k1", "host1"), KnownHost}

\* ingestDetailQuery(&host, name, rows), as the loop of the submission
\* handler calls it
IngestDetail(s, host, name, rows) ==
    /\ pc[s] = "idle"
    /\ nreq < MaxRequests
    /\ nreq' = nreq + 1
    /\ req' = [req EXCEPT ![s] =
          [op |-> "ingestDetailQuery", host |-> host, name |-> name,
           rows |-> rows]]
    /\ overlap' = BeginOverlap(s)
    /\ calls' = [calls EXCEPT ![s] = <<>>]
    /\ loc' = [loc EXCEPT ![s] =
          ingestDetailQuery(host, hostDetailQueryPrefix \o name, rows)]
    /\ pc' = [pc EXCEPT ![s] = "ingested"]
    /\ ret' = [ret EXCEPT ![s] = <<>>]
    /\ UNCHANGED <<now, dsVars>>

\* the same rows ingested once more into the host the first call left
IngestDetailAgain(s) ==
    /\ pc[s] = "ingested"
    /\ Return(s, [once |-> loc[s],
                  twice |-> ingestDetailQuery(
                               loc[s].host,
                               hostDetailQueryPrefix \o req[s].name,
                               req[s].rows)])
    /\ UNCHANGED <<now, nreq, dsVars, req, loc, calls, overlap>>

\* emptyToZero(val)
EmptyToZero(s, val) ==
    /\ pc[s] = "idle"
    /\ nreq < MaxRequests
    /\ nreq' = nreq + 1
    /\ req' = [req EXCEPT ![s] = [op |-> "emptyToZero", val |-> val]]
    /\ overlap' = BeginOverlap(s)
    /\ calls' = [calls EXCEPT ![s] = <<>>]
    /\ Return(s, [val |-> emptyToZero(val)])
    /\ UNCHANGED <<now, dsVars, loc>>

NextIngest ==
    \/ \E host \in IngestHosts, name \in IngestNames :
          \E rows \in RowSets(name) : IngestDetail("s1", host, name, rows)
    \/ IngestDetailAgain("s1")
    \/ \E val \in NumericValues : EmptyToZero("s1", val)

SpecIngest == Init /\ [][NextIngest]_vars

-----------------------------------------------------------------------------
(* Claims about the detail ingestion functions, checked under SpecIngest *)

\* the first ingestion of the current call has been made
Ingested(s) ==
    /\ pc[s] \in {"ingested", "returned"}
    /\ req[s].op = "ingestDetailQuery"

\* what the first ingestion of the current call returned
IngestResult(s) == IF pc[s] = "ingested" THEN loc[s] ELSE ret[s].once

\* C24: for every detail query definition, every host and every row set,
\* ingesting the same rows twice in succession leaves the same host, and
\* returns the same error or none, as ingesting them once.
C24_IngestionIdempotent ==
    \A s \in Sessions :
        Returned(s, "ingestDetailQuery") =>
            /\ ret[s].twice.host = ret[s].once.host
            /\ ret[s].twice.err = ret[s].once.err

\* C24 witness: rows ingested twice whose first ingestion failed after it
\* had changed the host.
C24_Witness ==
    \E s \in Sessions :
        /\ Returned(s, "ingestDetailQuery")
        /\ ret[s].once.err # None
        /\ ret[s].once.host # req[s].host
        /\ ret[s].twice = ret[s].once

\* a reported value is the empty string or an optionally signed number
IsDecimal(v) ==
    LET digits == IF v # <<>> /\ v[1] \in {"+", "-"} THEN Tail(v) ELSE v
    IN  digits # <<>> /\ \A i \in 1..Len(digits) : IsDigit(digits[i])

ParsesAfterNormalization(v) == v = <<>> \/ IsDecimal(v)

\* the numeric columns of a definition that the ingestion function reads
NumericColumns(name) ==
    CASE name = DetailNameNetworkInterface ->
           NicCheckedColumns \cup NicCounterColumns
      [] name = DetailNameSystemInfo -> SystemInfoNumericColumns
      [] name = DetailNameUptime -> {"total_seconds"}
      [] name = DetailNameOsqueryFlags -> {"value"}
      [] OTHER -> {}

\* the rows of a result that the ingestion function reads
RowsRead(name, rows) ==
    IF name = DetailNameNetworkInterface THEN 1..Len(rows)
    ELSE IF name = DetailNameOsqueryFlags
       THEN {i \in 1..Len(rows) : rows[i].name \in FlagNames}
    ELSE IF Len(rows) = 1 THEN {1} ELSE {}

\* a numeric column among columns, of a row that is read, holds a value that
\* does not parse after the normalisation of the empty string
HasParseFailure(name, rows, columns) ==
    \E i \in RowsRead(name, rows) :
        \E c \in columns \cap NumericColumns(name) \cap DOMAIN rows[i] :
            ~ParsesAfterNormalization(rows[i][c])

AllColumns ==
    NicCheckedColumns \cup NicCounterColumns \cup SystemInfoNumericColumns
    \cup {"total_seconds", "value"}

\* C25 as stated: for every numeric field of every detail query definition,
\* a value that fails to parse after the normalisation of the empty string
\* makes the ingestion return an error.
C25_EveryParseFailureReturned ==
    \A s \in Sessions :
        (/\ Ingested(s)
         /\ req[s].name \in detailQueryNames
         /\ HasParseFailure(req[s].name, req[s].rows, AllColumns))
        => IngestResult(s).err # None

\* the value of a traffic counter of the i-th ingested network interface
CounterField(nic, c) ==
    CASE c = "ibytes" -> nic.IBytes
      [] c = "ierrors" -> nic.IErrors
      [] c = "ipackets" -> nic.IPackets
      [] c = "obytes" -> nic.OBytes
      [] c = "oerrors" -> nic.OErrors
      [] c = "opackets" -> nic.OPackets

\* C25 as amended: a parse failure of a numeric field other than the six
\* traffic counters of network_interface makes the ingestion return an
\* error; a traffic counter that fails to parse is stored as -1 and is no
\* error.
C25_ParseFailureReturnedExceptCounters ==
    \A s \in Sessions :
        (Ingested(s) /\ req[s].name \in detailQueryNames) =>
            /\ HasParseFailure(req[s].name, req[s].rows,
                               AllColumns \ NicCounterColumns)
               => IngestResult(s).err # None
            /\ (/\ req[s].name = DetailNameNetworkInterface
                /\ req[s].rows # <<>>
                /\ ~HasParseFailure(req[s].name, req[s].rows,
                                    AllColumns \ NicCounterColumns))
               => /\ IngestResult(s).err = None
                  /\ Len(IngestResult(s).host.NetworkInterfaces)
                        = Len(req[s].rows)
                  /\ \A i \in 1..Len(req[s].rows) : \A c \in NicCounterColumns :
                        ~ParsesAfterNormalization(req[s].rows[i][c]) =>
                            CounterField(
                                IngestResult(s).host.NetworkInterfaces[i], c)
                            = 0 - 1

\* C25 witness: network interfaces ingested without error, with -1 stored for
\* a counter that did not parse and 7 for one that did.
C25_Witness ==
    \E s \in Sessions :
        /\ Ingested(s)
        /\ req[s].name = DetailNameNetworkInterface
        /\ Len(req[s].rows) = 2
        /\ req[s].rows[1]["obytes"] = Unparsable
        /\ IngestResult(s).err = None
        /\ IngestResult(s).host.NetworkInterfaces[1].OBytes = 0 - 1
        /\ IngestResult(s).host.NetworkInterfaces[2].OBytes = 7

\* the definitions that expect exactly one row
SingleRowNames ==
    {DetailNameOSVersion, DetailNameOsqueryInfo, DetailNameSystemInfo,
     DetailNameUptime}

\* C26: for os_version, osquery_info, system_info and uptime, the ingestion
\* of zero rows or of more than one row returns no error and leaves every
\* field of the host as it was.
C26_RowCountMismatchSkipped ==
    \A s \in Sessions :
        (/\ Ingested(s)
         /\ req[s].name \in SingleRowNames
         /\ Len(req[s].rows) # 1)
        => /\ IngestResult(s).err = None
           /\ IngestResult(s).host = req[s].host

\* C26 witness: two rows reported for a definition that expects one, the
\* first of which differs from what the host holds.
C26_Witness ==
    \E s \in Sessions :
        /\ Ingested(s)
        /\ req[s].name = DetailNameOsqueryInfo
        /\ Len(req[s].rows) = 2
        /\ req[s].rows[1].version # req[s].host.OsqueryVersion
        /\ IngestResult(s).err = None
        /\ IngestResult(s).host = req[s].host

\* the interval reported for a flag, zero if the flag is not reported
ReportedFlag(rows, flag) ==
    IF \E i \in 1..Len(rows) : rows[i].name = flag
       THEN ReportedInterval[
                rows[CHOOSE i \in 1..Len(rows) : rows[i].name = flag].value]
       ELSE 0

\* no flag is reported twice
DistinctFlags(rows) ==
    \A i, j \in 1..Len(rows) : rows[i].name = rows[j].name => i = j

\* C27: after a successful osquery_flags ingestion the host's config refresh
\* interval is the reported config_tls_refresh if that is non-zero, and
\* otherwise the reported config_refresh (zero if neither is reported),
\* whatever the order of the rows.
C27_ConfigRefreshReconciled ==
    \A s \in Sessions :
        (/\ Ingested(s)
         /\ req[s].name = DetailNameOsqueryFlags
         /\ DistinctFlags(req[s].rows)
         /\ IngestResult(s).err = None)
        => IngestResult(s).host.ConfigTLSRefresh =
              IF ReportedFlag(req[s].rows, FlagConfigTLSRefresh) # 0
                 THEN ReportedFlag(req[s].rows, FlagConfigTLSRefresh)
                 ELSE ReportedFlag(req[s].rows, FlagConfigRefresh)

\* C27 witness: config_refresh reported before a non-zero config_tls_refresh
\* of another value, and the latter stored.
C27_Witness ==
    \E s \in Sessions :
        /\ Ingested(s)
        /\ req[s].name = DetailNameOsqueryFlags
        /\ Len(req[s].rows) = 2
        /\ req[s].rows[1] = [name |-> FlagConfigRefresh, value |-> <<"7">>]
        /\ req[s].rows[2] = [name |-> FlagConfigTLSRefresh, value |-> <<"5">>]
        /\ IngestResult(s).err = None
        /\ IngestResult(s).host.ConfigTLSRefresh = 5

\* C28: emptyToZero returns "0" for the empty string and every other string
\* as it is, so that the uptime reported as "" is ingested as 0 and the one
\* reported as "12345" as 12345.
C28_EmptyNumericFieldIsZero ==
    \A s \in Sessions :
        /\ Returned(s, "emptyToZero") =>
              ret[s].val = IF req[s].val = <<>> THEN <<"0">> ELSE req[s].val
        /\ (/\ Ingested(s)
            /\ req[s].name = DetailNameUptime
            /\ Len(req[s].rows) = 1)
           => /\ req[s].rows[1].total_seconds = <<>> =>
                    /\ IngestResult(s).err = None
                    /\ IngestResult(s).host.Uptime = 0
              /\ req[s].rows[1].total_seconds = <<"1", "2", "3", "4", "5">> =>
                    /\ IngestResult(s).err = None
                    /\ IngestResult(s).host.Uptime = 12345

\* C28 witness: an empty uptime ingested as zero into a host that held
\* another uptime.
C28_Witness ==
    \E s \in Sessions :
        /\ Ingested(s)
        /\ req[s].name = DetailNameUptime
        /\ req[s].rows = <<[total_seconds |-> <<>>]>>
        /\ req[s].host.Uptime # 0
        /\ IngestResult(s).err = None
        /\ IngestResult(s).host.Uptime = 0

-----------------------------------------------------------------------------
(* A newly enrolled agent reports its system information, its operating    *)
(* system, or both, and asks for its queries in a later request            *)

NameDetailSystemInfo == hostDetailQueryPrefix \o DetailNameSystemInfo

NameDetailOSVersion == hostDetailQueryPrefix \o DetailNameOSVersion

\* one row with a hostname
HostNameReported == <<SystemInfoRow(<<"7">>, "none")>>

\* one row with a platform
PlatformReported ==
    <<[name |-> <<"U">>, major |-> <<"1">>, minor |-> <<"4">>,
       patch |-> <<"2">>, build |-> <<"b">>, platform |-> <<"u">>,
       platform_like |-> <<"d">>, code_name |-> <<"x">>]>>

AccelerateSubmissions ==
    {NameDetailSystemInfo :> HostNameReported,
     NameDetailOSVersion :> PlatformReported,
     (NameDetailSystemInfo :> HostNameReported)
        @@ (NameDetailOSVersion :> PlatformReported)}

NextAccelerate ==
    \/ AuthenticateHost("s1", "k1")
    \/ AuthMarkHostSeen("s1")
    \/ GetDistributedQueries("s1")
    \/ GetLabelQueries("s1")
    \/ GetCampaignQueries("s1")
    \/ \E results \in AccelerateSubmissions :
          SubmitDistributedQueryResults("s1", results, EmptyMap)
    \/ SubmitLoop("s1")
    \/ SubmitAfterLoop("s1")
    \/ SubmitSaveHost("s1")
    \/ EndRequest("s1")

SpecAccelerate == Init /\ [][NextAccelerate]_vars

\* C29: GetDistributedQueries returns, with the queries, a non-zero
\* acceleration hint exactly when the hostname and the platform of the agent
\* are both empty, and the hint 0 for an agent with either of them set.
C29_AccelerateIffNewHost ==
    \A s \in Sessions :
        (/\ Returned(s, "GetDistributedQueries")
         /\ req[s].authenticated
         /\ ret[s].err = None)
        => /\ loc[s].host.HostName = dsHosts[loc[s].host.NodeKey].HostName
           /\ loc[s].host.Platform = dsHosts[loc[s].host.NodeKey].Platform
           /\ (ret[s].accelerate # 0) <=>
                 (loc[s].host.HostName = <<>> /\ loc[s].host.Platform = <<>>)

\* C29 witness: the hint 0 returned to an agent whose platform is known and
\* whose hostname is still empty.
C29_Witness ==
    \E s \in Sessions :
        /\ Returned(s, "GetDistributedQueries")
        /\ ret[s].err = None
        /\ dsHosts["k1"].HostName = <<>>
        /\ dsHosts["k1"].Platform # <<>>
        /\ ret[s].accelerate = 0

-----------------------------------------------------------------------------
(* Two sessions of the same agent: each authenticates with the node key of *)
(* the agent and submits a detail result or a label result with the host   *)
(* its authentication returned                                             *)

RaceSubmissions ==
    {NameDetailUptime :> OneRow(<<"5">>), NameLabel1 :> OneRow(<<"5">>)}

NextRace ==
    \/ \E s \in Sessions : AuthenticateHost(s, "k1")
    \/ \E s \in Sessions : AuthMarkHostSeen(s)
    \/ \E s \in Sessions, results \in RaceSubmissions :
          SubmitDistributedQueryResults(s, results, EmptyMap)
    \/ \E s \in Sessions : SubmitLoop(s)
    \/ \E s \in Sessions : SubmitAfterLoop(s)
    \/ \E s \in Sessions : SubmitRecordLabels(s)
    \/ \E s \in Sessions : SubmitSaveHost(s)

SpecRace == Init /\ [][NextRace]_vars

\* the host that the successful SaveHost of the submission of s stored
SavedHost(s) == LastCall(calls[s]).arg

\* C30: when two sessions of the same agent submit results concurrently,
\* each with the host it authenticated with, the uptime and the detail
\* update time that a submission saved and acknowledged stay stored; the
\* SaveHost of the other submission does not put older values in their place.
C30_SavedUpdateNotOverwritten ==
    \A s \in Sessions :
        (/\ Returned(s, "SubmitDistributedQueryResults")
         /\ ret[s].err = None
         /\ NameDetailUptime \in DOMAIN req[s].results)
        => /\ dsHosts["k1"].Uptime = SavedHost(s).Uptime
           /\ dsHosts["k1"].DetailUpdateTime = SavedHost(s).DetailUpdateTime

-----------------------------------------------------------------------------
(* Claims about the policies table, checked under SpecPolicies *)

\* session s makes the call op in this step, and the call returns
Calls(s, op) ==
    /\ pc[s] = "idle"
    /\ pc'[s] = "returned"
    /\ req'[s].op = op

\* the policies a read returned
PoliciesReturned(r) ==
    IF "policies" \in DOMAIN r THEN r.policies
    ELSE IF r.policy = None THEN {}
    ELSE {r.policy[1]}

\* the policy reads
PolicyReads ==
    {"ListGlobalPolicies", "ListTeamPolicies", "Policy", "TeamPolicy"}

InTeam(teamID, policyID) ==
    /\ policyID \in DOMAIN dsReader.policies
    /\ dsReader.policies[policyID].team_id = teamID

\* C22: TeamPolicy(teamID, policyID) returns a policy only if the policy of
\* that id exists and its team is teamID, and it is that policy; for the id
\* of a policy of another team or of a global policy it returns what it
\* returns for an id of no policy, the error of a select without rows.
C22_TeamPolicyScoped ==
    [][\A s \in Sessions :
          Calls(s, "TeamPolicy") =>
              /\ ret'[s].policy # None =>
                    /\ InTeam(req'[s].teamID, req'[s].policyID)
                    /\ ret'[s].policy[1].ID = req'[s].policyID
                    /\ ret'[s].policy[1].TeamID = req'[s].teamID
                    /\ ret'[s].err = None
              /\ (/\ ~InTeam(req'[s].teamID, req'[s].policyID)
                  /\ LastCall(calls'[s]).err = "nil")
                 => ret'[s] = [policy |-> None,
                               err |-> Some(PolicyGetError(ErrNoRows))]]_vars

\* C22 witness: the policy of team 1 asked for under team 2, and the error
\* of a select without rows returned.
C22_Witness ==
    \E s \in Sessions :
        /\ Returned(s, "TeamPolicy")
        /\ req[s].policyID = 5
        /\ req[s].teamID = Some(2)
        /\ 5 \in DOMAIN dsReader.policies
        /\ dsReader.policies[5].team_id = Some(1)
        /\ ret[s] = [policy |-> None, err |-> Some(PolicyGetError(ErrNoRows))]

\* C23: a delete that succeeds returns the id list it was given, whether or
\* not policies of those ids existed; DeleteTeamPolicies removes the policies
\* whose id is in the list and whose team is the given team, and leaves
\* every other policy as it was.
C23_DeleteReturnsIDsAndKeepsOthers ==
    [][\A s \in Sessions :
          /\ \A op \in {"DeleteGlobalPolicies", "DeleteTeamPolicies"} :
                (Calls(s, op) /\ ret'[s].err = None) =>
                    ret'[s].ids = Some(req'[s].ids)
          /\ (Calls(s, "DeleteTeamPolicies") /\ ret'[s].err = None) =>
                /\ DOMAIN dsPolicies' =
                      {id \in DOMAIN dsPolicies :
                          ~(/\ id \in Elements(req'[s].ids)
                            /\ dsPolicies[id].team_id = req'[s].teamID)}
                /\ \A id \in DOMAIN dsPolicies' :
                      dsPolicies'[id] = dsPolicies[id]]_vars

\* C23 witness: a delete for team 1 of a list with the policy of team 1, now
\* gone, and the policy of team 2, still there.
C23_Witness ==
    \E s \in Sessions :
        /\ Returned(s, "DeleteTeamPolicies")
        /\ req[s].teamID = Some(1)
        /\ req[s].ids = <<5, 7>>
        /\ ret[s] = [ids |-> Some(<<5, 7>>), err |-> None]
        /\ DOMAIN dsPolicies = {3, 7}

-----------------------------------------------------------------------------
(* Two sessions of the same agent: one submits an uptime result, with one  *)
(* row or with none, the other a label result, while the clock goes on     *)

\* a detail result of one row, and one that its ingestion skips
RefreshSubmissions ==
    {NameDetailUptime :> OneRow(<<"5">>), NameDetailUptime :> NoRows}

NextRefresh ==
    \/ Tick
    \/ \E s \in Sessions : AuthenticateHost(s, "k1")
    \/ \E s \in Sessions : AuthMarkHostSeen(s)
    \/ \E results \in RefreshSubmissions :
          SubmitDistributedQueryResults("s2", results, EmptyMap)
    \/ SubmitDistributedQueryResults("s1", NameLabel1 :> OneRow(<<"5">>), EmptyMap)
    \/ \E s \in Sessions : SubmitLoop(s)
    \/ \E s \in Sessions : SubmitAfterLoop(s)
    \/ \E s \in Sessions : SubmitRecordLabels(s)
    \/ \E s \in Sessions : SubmitSaveHost(s)

SpecRefresh == Init /\ [][NextRefresh]_vars

\* the submission of s, made with an authenticated host and holding a detail
\* result, has returned without an error
SucceededWithDetail(s) ==
    /\ Returned(s, "SubmitDistributedQueryResults")
    /\ req[s].authenticated
    /\ ret[s].err = None
    /\ \E q \in DOMAIN req[s].results : HasPrefix(q, hostDetailQueryPrefix)

\* C31: after a successful submission that holds a detail result, also one
\* whose ingestion was skipped for its row count, the stored detail update
\* time of the agent is the clock time the submission read, and as long as
\* less than one hour has passed since, the dispatch computed from the stored
\* host holds no detail query.
C31_DetailRefreshPersisted ==
    \A s \in Sessions :
        SucceededWithDetail(s) =>
            LET t == SavedHost(s).DetailUpdateTime
                stored == dsHosts[SavedHost(s).NodeKey]
            IN  /\ t \in 1..now
                /\ stored.DetailUpdateTime = t
                /\ now - t < detailUpdateInterval =>
                      hostDetailQueries(stored) = EmptyMap

-----------------------------------------------------------------------------
(* One agent submits one result under a name with a known prefix (the      *)
(* suffix is a registry name or not, an id in decimal digits, a negative   *)
(* number, a letter, or empty), or the result of a campaign together with  *)
(* a detail result, a label result or the result of another campaign       *)

NameDetailUnknown == hostDetailQueryPrefix \o DetailNameUnknown

NameLabelEmpty == hostLabelQueryPrefix

NameLabelNegative == hostLabelQueryPrefix \o <<"-", "1">>

NameCampaignEmpty == hostDistributedQueryPrefix

NameCampaignNegative == hostDistributedQueryPrefix \o <<"-", "1">>

NameCampaignBad == hostDistributedQueryPrefix \o <<"x">>

SuffixNames ==
    {NameDetailUptime, NameDetailUnknown,
     NameLabel1, NameLabelBad, NameLabelEmpty, NameLabelNegative,
     NameCampaign1, NameCampaignBad, NameCampaignEmpty, NameCampaignNegative}

SuffixSubmissions ==
    {q :> OneRow(<<"5">>) : q \in SuffixNames}
    \cup {(NameCampaign1 :> OneRow(<<"5">>)) @@ (q :> OneRow(<<"7">>)) :
             q \in {NameDetailUptime, NameLabel1, NameCampaign12}}

NextSuffix ==
    \/ AuthenticateHost("s1", "k1")
    \/ AuthMarkHostSeen("s1")
    \/ \E results \in SuffixSubmissions :
          SubmitDistributedQueryResults("s1", results, EmptyMap)
    \/ SubmitLoop("s1")
    \/ IngestWriteResult("s1")
    \/ IngestLoadCampaign("s1")
    \/ IngestSaveCampaign("s1")
    \/ IngestNewExecution("s1")
    \/ SubmitAfterLoop("s1")
    \/ SubmitRecordLabels("s1")
    \/ SubmitSaveHost("s1")

SpecSuffix == Init /\ [][NextSuffix]_vars

\* a non-negative decimal integer: one or more decimal digits
IsDecimalID(suffix) ==
    suffix # <<>> /\ \A i \in 1..Len(suffix) : IsDigit(suffix[i])

\* the suffix of a name with a known prefix denotes a valid identifier
ValidSuffix(query) ==
    IF HasPrefix(query, hostDetailQueryPrefix)
       THEN TrimPrefix(query, hostDetailQueryPrefix) \in detailQueryNames
    ELSE IF HasPrefix(query, hostLabelQueryPrefix)
       THEN IsDecimalID(TrimPrefix(query, hostLabelQueryPrefix))
    ELSE IsDecimalID(TrimPrefix(query, hostDistributedQueryPrefix))

\* the name carries the prefix, and its suffix is the id in decimal digits
DenotesID(query, prefix, id) ==
    /\ HasPrefix(query, prefix)
    /\ IsDecimalID(TrimPrefix(query, prefix))
    /\ DecimalValue(TrimPrefix(query, prefix)) = id

\* C32: a submitted name with a known prefix whose suffix denotes no valid
\* identifier (a detail name that is not in the registry; a label or campaign
\* suffix that is not a decimal number, is empty or is negative) fails the
\* submission, and every label membership recorded and every campaign result
\* published is under the id that the suffix of a submitted name denotes.
C32_InvalidSuffixFailsSubmission ==
    \A s \in Sessions :
        Submitted(s) =>
            /\ (/\ pc[s] = "returned"
                /\ \E q \in DOMAIN req[s].results :
                      HasKnownPrefix(q) /\ ~ValidSuffix(q))
               => Failed(s)
            /\ \A i \in CallsTo(s, "RecordLabelQueryExecutions") :
                  \A id \in DOMAIN calls[s][i].arg[2] :
                     \E q \in DOMAIN req[s].results :
                        DenotesID(q, hostLabelQueryPrefix, id)
            /\ \A i \in CallsTo(s, "WriteResult") :
                  \E q \in DOMAIN req[s].results :
                     DenotesID(q, hostDistributedQueryPrefix,
                               calls[s][i].arg.DistributedQueryCampaignID)

-----------------------------------------------------------------------------
(* Claims about the insert of RecordPolicyQueryExecutions, checked under   *)
(* SpecPolicy                                                              *)

\* C36: a call of RecordPolicyQueryExecutions issues exactly one insert
\* statement, with one row for each key of the result map, each row holding
\* the timestamp of the call, the policy id, the host id and the result
\* reported for that policy; a call with an empty result map writes no row
\* and returns no error.
C36_OneInsertRowPerResult ==
    \A s \in Sessions :
        Returned(s, "RecordPolicyQueryExecutions") =>
            /\ Len(calls[s]) = 1
            /\ calls[s][1].op = "ExecContext"
            /\ LET rows == calls[s][1].arg IN
               /\ Len(rows) = Cardinality(DOMAIN req[s].results)
               /\ \A p \in DOMAIN req[s].results :
                     \E i \in 1..Len(rows) :
                        rows[i] = [updated_at |-> req[s].updated,
                                   policy_id |-> p,
                                   host_id |-> req[s].hostID,
                                   passes |-> req[s].results[p]]
               /\ ret[s].err = None =>
                     \E i \in 1..Len(dsPolicyHistory) : dsPolicyHistory[i] = rows
            /\ req[s].results = EmptyMap =>
                  /\ ret[s].err = None
                  /\ \A i \in 1..Len(dsPolicyHistory) : dsPolicyHistory[i] # <<>>

-----------------------------------------------------------------------------
(* One request of an agent: it enrolls, or it authenticates or not and     *)
(* then asks for its configuration, asks for its queries or submits        *)
(* results, with the host its authentication returned or with none         *)

SessionSubmissions == SuffixSubmissions \cup {NameUnknown :> OneRow(<<"5">>)}

NextSession ==
    \/ \E k \in AuthKeys : AuthenticateHost("s1", k)
    \/ AuthMarkHostSeen("s1")
    \/ \E e \in EnrollSecrets, h \in HostIdentifiers : EnrollAgent("s1", e, h)
    \/ EnrollAgentEnrollHost("s1")
    \/ GetClientConfig("s1")
    \/ ConfigOptions("s1")
    \/ ConfigListPacks("s1")
    \/ ConfigListQueries("s1")
    \/ ConfigSaveHost("s1")
    \/ GetDistributedQueries("s1")
    \/ GetLabelQueries("s1")
    \/ GetCampaignQueries("s1")
    \/ \E results \in SessionSubmissions :
          SubmitDistributedQueryResults("s1", results, EmptyMap)
    \/ SubmitLoop("s1")
    \/ IngestWriteResult("s1")
    \/ IngestLoadCampaign("s1")
    \/ IngestSaveCampaign("s1")
    \/ IngestNewExecution("s1")
    \/ SubmitAfterLoop("s1")
    \/ SubmitRecordLabels("s1")
    \/ SubmitSaveHost("s1")

SpecSession == Init /\ [][NextSession]_vars

\* the operations that take the host from the request context
ContextOperations ==
    {"GetClientConfig", "GetDistributedQueries", "SubmitDistributedQueryResults"}

\* session s begins the call op in this step, with no authentication
\* before it
CallsUnauthenticated(s, op) ==
    /\ pc[s] = "idle"
    /\ req'[s] # <<>>
    /\ req'[s].op = op

\* what a call returned besides its error: a configuration or a query set
Produced(r) ==
    IF "config" \in DOMAIN r THEN r.config
    ELSE IF "queries" \in DOMAIN r THEN r.queries
    ELSE None

\* C33: GetClientConfig, GetDistributedQueries and
\* SubmitDistributedQueryResults called without an authenticated host in the
\* request context return at once with the internal error (an osqueryError
\* that is not node-invalid), no configuration and no query set, having made
\* no datastore or pub/sub call and changed nothing stored or published.
C33_UnauthenticatedRejected ==
    [][\A s \in Sessions : \A op \in ContextOperations :
          CallsUnauthenticated(s, op) =>
              /\ pc'[s] = "returned"
              /\ ret'[s].err = Some(osqueryError(
                    <<"internal error: missing host from request context">>,
                    FALSE))
              /\ Produced(ret'[s]) = None
              /\ calls'[s] = <<>>
              /\ UNCHANGED dsVars]_vars

\* C33 witness: GetClientConfig called with no authenticated host has
\* returned the internal error and no configuration, with no call made.
C33_Witness ==
    \E s \in Sessions :
        /\ Returned(s, "GetClientConfig")
        /\ ~req[s].authenticated
        /\ ret[s] = [config |-> None, err |-> Some(ConfigMissingHost)]
        /\ calls[s] = <<>>

\* the operations of the osquery session service
SessionOperations ==
    {"AuthenticateHost", "EnrollAgent"} \cup ContextOperations

\* C35: every error that AuthenticateHost, EnrollAgent, GetClientConfig,
\* GetDistributedQueries and SubmitDistributedQueryResults return is an
\* osqueryError, never the error of a datastore call as the datastore gave
\* it, and only AuthenticateHost and EnrollAgent return one that is flagged
\* node-invalid.
C35_ErrorsAreOsqueryErrors ==
    \A s \in Sessions :
        (/\ pc[s] = "returned"
         /\ req[s].op \in SessionOperations
         /\ ret[s].err # None)
        => LET e == ret[s].err[1] IN
           /\ e.type = "osqueryError"
           /\ NodeInvalid(e) => req[s].op \in {"AuthenticateHost", "EnrollAgent"}

-----------------------------------------------------------------------------
(* Claims about the results of campaigns, checked under SpecSuffix *)

\* C34: in a submission that succeeds, each result under the distributed
\* prefix is published to the result store exactly once, with its rows and
\* the host, and exactly one execution record of the host and the campaign of
\* that publish is appended for it (the campaign of the suffix, when the
\* suffix is an id in decimal digits); no other publish and no other
\* execution record is made, so none for a detail or a label result, and none
\* a second time.
C34_OnePublishAndOneRecordPerResult ==
    \A s \in Sessions :
        (Succeeded(s) /\ req[s].authenticated) =>
            LET results == req[s].results
                names == NamesWithPrefix(results, hostDistributedQueryPrefix)
                writes == CallsTo(s, "WriteResult")
                execs == CallsTo(s, "NewDistributedQueryExecution")
                suffix(q) == TrimPrefix(q, hostDistributedQueryPrefix)
            IN  /\ Cardinality(writes) = Cardinality(names)
                /\ Cardinality(execs) = Cardinality(names)
                /\ \A q \in names :
                      LET published_q ==
                              {i \in writes :
                                  /\ calls[s][i].arg.Rows = results[q]
                                  /\ calls[s][i].arg.Host.ID = 1
                                  /\ IsDecimalID(suffix(q)) =>
                                        calls[s][i].arg.DistributedQueryCampaignID
                                           = DecimalValue(suffix(q))}
                      IN  /\ Cardinality(published_q) = 1
                          /\ \A i \in published_q :
                                /\ calls[s][i].err = "nil" =>
                                      \E k \in 1..Len(published) :
                                         published[k] = calls[s][i].arg
                                /\ Cardinality(
                                      {j \in execs :
                                          /\ calls[s][j].err = "nil"
                                          /\ calls[s][j].arg.HostID = 1
                                          /\ calls[s][j].arg.DistributedQueryCampaignID
                                                = calls[s][i].arg.DistributedQueryCampaignID
                                          /\ \E k \in 1..Len(dsExecutions) :
                                                dsExecutions[k] = calls[s][j].arg}) = 1

\* C34 witness: a submission of the results of campaigns 1 and 12 has
\* succeeded with two publishes and two execution records.
C34_Witness ==
    \E s \in Sessions :
        /\ Succeeded(s)
        /\ DOMAIN req[s].results = {NameCampaign1, NameCampaign12}
        /\ Cardinality(CallsTo(s, "WriteResult")) = 2
        /\ Cardinality(CallsTo(s, "NewDistributedQueryExecution")) = 2
        /\ Len(dsExecutions) >= 2

====
